---------------------------- MODULE Spec2Model ----------------------------
(***************************************************************************)
(* Drone authentication: the ground station (GroundStation.cc), the drone  *)
(* application (DroneAuthApp.cc) and the proof engine (ZKPModule.cc).      *)
(*                                                                         *)
(* Datagrams are byte sequences, decoded as the handlers decode them.      *)
(* Widths are scaled: a length field is LenBytes bytes wide (uint32_t in   *)
(* the source), a timestamp TsBytes bytes (uint64_t / int64_t), a SHA-256  *)
(* digest DigestLen bytes.  The wall clock counts seconds, not             *)
(* nanoseconds.  RAND_bytes is a source of fresh values: every draw        *)
(* returns a value never returned before.                                  *)
(***************************************************************************)
EXTENDS Integers, Sequences, FiniteSets, TLC

VARIABLES
    gs,       \* the GroundStation object (its maps and counters)
    now,      \* std::chrono::system_clock, in seconds
    rand,     \* number of values drawn from RAND_bytes for challenges
    app,      \* app[d]: the DroneAuthApp object of drone d
    net,      \* datagrams in flight between the drones and the ground station
    hist      \* history: the challenges issued and accepted so far, and per
              \* drone the timeouts that fired and what it waits for

vars == <<gs, now, rand, app, net, hist>>

---------------------------------------------------------------------------
(* Bounds of the model *)

LenBytes == 1
TsBytes == 1
DigestLen == 2
MaxNow == 6
TickStep == 6
MaxRequests == 2
MaxFailures == 1
MaxDroneRequests == 2
MaxInFlight == 2
MaxOutcomes == 3

(* Program constants *)

FreshnessWindow == 5

---------------------------------------------------------------------------
(* Bytes and little-endian integers (memcpy of a native integer) *)

Pow256(w) == IF w = 0 THEN 1 ELSE IF w = 1 THEN 256 ELSE IF w = 2 THEN 65536 ELSE 16777216

ToBytes(n, w) == [i \in 1..w |-> (n \div Pow256(i - 1)) % 256]

RECURSIVE FromBytes(_)
FromBytes(s) == IF s = <<>> THEN 0 ELSE Head(s) + 256 * FromBytes(Tail(s))

\* bytes [from, to) of a buffer, offsets counted from 0 as in the source
Slice(data, from, to) == SubSeq(data, from + 1, to)

\* memcpy(&x, &data[offset], w)
ReadUInt(data, offset, w) == FromBytes(Slice(data, offset, offset + w))

TsMod == Pow256(TsBytes)
IntMax == (TsMod \div 2) - 1
IntMin == -(TsMod \div 2)

\* (int64_t) of an unsigned value
ToSigned(u) == IF u > IntMax THEN u - TsMod ELSE u

\* the value a signed subtraction leaves in the register
WrapSigned(x) == ((x - IntMin) % TsMod) + IntMin

RECURSIVE StrLess(_, _)
\* std::string operator< : the order of the keys of a std::map
StrLess(a, b) ==
    IF b = <<>> THEN FALSE
    ELSE IF a = <<>> THEN TRUE
    ELSE IF Head(a) # Head(b) THEN Head(a) < Head(b)
    ELSE StrLess(Tail(a), Tail(b))

---------------------------------------------------------------------------
(* Wire format *)

TypeAuthRequest == 1
TypeChallenge == 2
TypeProof == 3
TypeAuthSuccess == 4
TypeAuthFailure == 5

\* struct ZKProof
ZKProof(proofData, commitment, challenge, timestamp) ==
    [proofData |-> proofData, commitment |-> commitment,
     challenge |-> challenge, timestamp |-> timestamp]

serialize(p) ==
    ToBytes(Len(p.proofData), LenBytes) \o p.proofData
    \o ToBytes(Len(p.commitment), LenBytes) \o p.commitment
    \o ToBytes(Len(p.challenge), LenBytes) \o p.challenge
    \o ToBytes(p.timestamp, TsBytes)

\* The offsets and sizes ZKProof::deserialize computes, as far as the buffer
\* holds them; inBounds: every memcpy and every assign stays inside the buffer
ProofLayout(data) ==
    LET size == Len(data)
        ok1 == size >= LenBytes
        proofSize == IF ok1 THEN ReadUInt(data, 0, LenBytes) ELSE 0
        offset1 == LenBytes + proofSize
        ok2 == ok1 /\ size >= offset1 + LenBytes
        commitSize == IF ok2 THEN ReadUInt(data, offset1, LenBytes) ELSE 0
        offset2 == offset1 + LenBytes + commitSize
        ok3 == ok2 /\ size >= offset2 + LenBytes
        chalLen == IF ok3 THEN ReadUInt(data, offset2, LenBytes) ELSE 0
        offset3 == offset2 + LenBytes + chalLen
    IN  [inBounds |-> ok3 /\ size >= offset3 + TsBytes,
         proofData |-> <<LenBytes, offset1>>,
         commitment |-> <<offset1 + LenBytes, offset2>>,
         challenge |-> <<offset2 + LenBytes, offset3>>,
         timestamp |-> offset3]

DeserializeInBounds(data) == ProofLayout(data).inBounds

\* a deserialize that reads the timestamp where the challenge starts
deserializeTimestampEarly(data) ==
    LET at == ProofLayout(data)
    IN  ZKProof(Slice(data, at.proofData[1], at.proofData[2]),
                Slice(data, at.commitment[1], at.commitment[2]),
                Slice(data, at.challenge[1], at.challenge[2]),
                ReadUInt(data, at.challenge[1], TsBytes))

\* ZKProof::deserialize on a buffer it can read without leaving it
deserialize(data) ==
    LET at == ProofLayout(data)
    IN  ZKProof(Slice(data, at.proofData[1], at.proofData[2]),
                Slice(data, at.commitment[1], at.commitment[2]),
                Slice(data, at.challenge[1], at.challenge[2]),
                ReadUInt(data, at.timestamp, TsBytes))

\* ZKProof::deserialize: the code checks no length against the buffer.  A read
\* past the end is undefined: the call may throw (an allocation of a garbage
\* size), end the process, or return a proof made of whatever bytes follow the
\* buffer (any proof of `garbage`).
deserializeOutcomes(data, garbage) ==
    IF DeserializeInBounds(data)
    THEN {[kind |-> "proof", proof |-> deserialize(data)]}
    ELSE {[kind |-> "throw"], [kind |-> "crash"]}
         \cup {[kind |-> "proof", proof |-> p] : p \in garbage}

---------------------------------------------------------------------------
(* ZKPModule *)

RECURSIVE Mix(_, _)
Mix(data, h) == IF data = <<>> THEN h ELSE Mix(Tail(data), (h * 31 + Head(data) + 1) % 251)

\* SHA256 of OpenSSL, as a small mixing function with a DigestLen-byte digest
sha256Hash(data) == [i \in 1..DigestLen |-> (Mix(data, 7) + 53 * (i - 1)) % 256]

combineVectors(vectors) ==
    LET RECURSIVE Cat(_)
        Cat(vs) == IF vs = <<>> THEN <<>> ELSE Head(vs) \o Cat(Tail(vs))
    IN Cat(vectors)

\* ZKPModule::ZKPModule()
NewZKPModule ==
    [privateSecret |-> <<>>, publicCommitment |-> <<>>, droneId |-> <<>>,
     sessionNonce |-> <<>>, lastChallenge |-> <<>>,
     proverInitialized |-> FALSE, verifierInitialized |-> FALSE,
     keysGenerated |-> FALSE]

\* setup() / generateKeys(): the two keys are random bytes nothing reads
setup(z) == [z EXCEPT !.keysGenerated = TRUE]

\* nonce: the bytes generateRandomBytes(32) returns
initializeProver(z, id, password, nonce) ==
    [z EXCEPT !.droneId = id,
              !.privateSecret = sha256Hash(combineVectors(<<id, password, nonce>>)),
              !.sessionNonce = nonce,
              !.proverInitialized = TRUE]

\* ok = FALSE: std::runtime_error("Prover not initialized")
createCommitment(z) ==
    IF ~z.proverInitialized THEN [ok |-> FALSE, z |-> z]
    ELSE [ok |-> TRUE,
          z |-> [z EXCEPT !.publicCommitment =
                     sha256Hash(combineVectors(<<z.privateSecret, z.sessionNonce>>))]]

\* a proof whose proofData is the secret itself
generateProofRevealing(z, challenge, nowv) ==
    IF ~z.proverInitialized THEN [ok |-> FALSE, z |-> z, proof |-> ZKProof(<<>>, <<>>, <<>>, 0)]
    ELSE [ok |-> TRUE, z |-> z,
          proof |-> ZKProof(z.privateSecret, z.publicCommitment, challenge, nowv)]

generateProof(z, challenge, nowv) ==
    IF ~z.proverInitialized THEN [ok |-> FALSE, z |-> z, proof |-> ZKProof(<<>>, <<>>, <<>>, 0)]
    ELSE [ok |-> TRUE, z |-> z,
          proof |-> ZKProof(sha256Hash(combineVectors(<<z.privateSecret, challenge, z.sessionNonce>>)),
                            z.publicCommitment, challenge, nowv)]

getCommitment(z) == z.publicCommitment

initializeVerifier(z, commitment, id) ==
    [z EXCEPT !.publicCommitment = commitment, !.droneId = id,
              !.verifierInitialized = TRUE]

\* "CHALLENGE_" << now << "_" << hex(random): the text of the clock and the
\* random bytes; rnd is the value RAND_bytes returns
ChallengeString(nowv, rnd) == <<nowv % 256, rnd>>

\* a challenge that does not depend on the random bytes
generateChallengeFromTime(z, nowv, rnd) ==
    [z |-> [z EXCEPT !.lastChallenge = ChallengeString(nowv, 0)],
     challenge |-> ChallengeString(nowv, 0)]

generateChallenge(z, nowv, rnd) ==
    [z |-> [z EXCEPT !.lastChallenge = ChallengeString(nowv, rnd)],
     challenge |-> ChallengeString(nowv, rnd)]

\* (int64_t)now - (int64_t)proof.timestamp, as a mathematical integer
TimeDifference(nowv, timestamp) == nowv - ToSigned(timestamp)

\* the subtraction or std::abs leaves the range of int64_t: undefined
TimeDiffOverflows(nowv, timestamp) ==
    \/ TimeDifference(nowv, timestamp) > IntMax
    \/ TimeDifference(nowv, timestamp) < IntMin
    \/ WrapSigned(TimeDifference(nowv, timestamp)) = IntMin

\* std::abs as the negation the hardware computes: abs(INT64_MIN) = INT64_MIN
AbsWrapped(x) == IF x < 0 THEN WrapSigned(-x) ELSE x

\* the verdicts of the freshness test timeDiff > 5000000000LL is FALSE for.
\* Where the arithmetic overflows the result is the wrapped one, or a
\* rejection (a build that folds the comparison).
FreshOutcomes(nowv, timestamp) ==
    LET wrapped == AbsWrapped(WrapSigned(TimeDifference(nowv, timestamp)))
    IN  IF TimeDiffOverflows(nowv, timestamp)
        THEN {~(wrapped > FreshnessWindow), FALSE}
        ELSE {~(wrapped > FreshnessWindow)}

\* verifyProof without the comparison of the commitments
verifyProofAnyCommitment(z, proof, nowv) ==
    IF ~z.verifierInitialized THEN {[ok |-> FALSE, result |-> FALSE]}
    ELSE IF Len(proof.proofData) # DigestLen THEN {[ok |-> TRUE, result |-> FALSE]}
    ELSE {[ok |-> TRUE, result |-> f] : f \in FreshOutcomes(nowv, proof.timestamp)}

\* a verifyProof that also wants the challenge it issued last
verifyProofBoundToChallenge(z, proof, nowv) ==
    IF ~z.verifierInitialized THEN {[ok |-> FALSE, result |-> FALSE]}
    ELSE IF Len(proof.proofData) # DigestLen THEN {[ok |-> TRUE, result |-> FALSE]}
    ELSE IF proof.commitment # z.publicCommitment THEN {[ok |-> TRUE, result |-> FALSE]}
    ELSE IF proof.challenge # z.lastChallenge THEN {[ok |-> TRUE, result |-> FALSE]}
    ELSE {[ok |-> TRUE, result |-> f] : f \in FreshOutcomes(nowv, proof.timestamp)}

\* ZKPModule::verifyProof: the set of results the call can have.
\* ok = FALSE: std::runtime_error("Verifier not initialized")
verifyProof(z, proof, nowv) ==
    IF ~z.verifierInitialized THEN {[ok |-> FALSE, result |-> FALSE]}
    ELSE IF Len(proof.proofData) # DigestLen THEN {[ok |-> TRUE, result |-> FALSE]}
    ELSE IF proof.commitment # z.publicCommitment THEN {[ok |-> TRUE, result |-> FALSE]}
    ELSE {[ok |-> TRUE, result |-> f] : f \in FreshOutcomes(nowv, proof.timestamp)}

\* a reset that clears the data and leaves the flags
resetKeepingFlags(z) ==
    [z EXCEPT !.privateSecret = <<>>, !.publicCommitment = <<>>,
              !.sessionNonce = <<>>, !.lastChallenge = <<>>]

\* ZKPModule::reset
reset(z) ==
    [z EXCEPT !.privateSecret = <<>>, !.publicCommitment = <<>>,
              !.sessionNonce = <<>>, !.lastChallenge = <<>>,
              !.proverInitialized = FALSE, !.verifierInitialized = FALSE]

---------------------------------------------------------------------------
(* std::map *)

MapPut(m, k, v) == [x \in (DOMAIN m) \cup {k} |-> IF x = k THEN v ELSE m[x]]

MapErase(m, k) == [x \in (DOMAIN m) \ {k} |-> m[x]]

EmptyMap == [x \in {} |-> <<>>]

---------------------------------------------------------------------------
(* GroundStation *)

\* "DRONE_001" .. "DRONE_005": the text of an identity is "D" and its digit
DroneName(n) == <<68, 48 + n>>

\* a list of authorized drones one entry too long
authorizedDronesAndOneMore == {DroneName(n) : n \in 1..6}

authorizedDrones == {DroneName(n) : n \in 1..5}

\* GroundStation::GroundStation() and initialize(INITSTAGE_LOCAL).
\* alive: the process has not been ended by an uncaught error.
NewGroundStation ==
    [droneVerifiers |-> EmptyMap, pendingChallenges |-> EmptyMap,
     droneAddresses |-> EmptyMap,
     numAuthRequests |-> 0, numAuthSuccess |-> 0, numAuthFailures |-> 0,
     alive |-> TRUE]

\* sendPacket: the datagram handed to socket.sendTo
Packet(data, destAddr, destPort) ==
    [data |-> data, destAddr |-> destAddr, destPort |-> destPort]

AuthSuccessPacket(destAddr, destPort) == Packet(<<TypeAuthSuccess>>, destAddr, destPort)

AuthFailurePacket(destAddr, destPort) == Packet(<<TypeAuthFailure>>, destAddr, destPort)

ChallengePacket(challenge, destAddr, destPort) ==
    Packet(<<TypeChallenge>> \o ToBytes(Len(challenge), LenBytes) \o challenge,
           destAddr, destPort)

\* what a handler leaves: the object, the packets sent, the next fresh random value
Handled(g, out, rnd) == [gs |-> g, out |-> out, rand |-> rnd]

\* the length of the fixed part of an AUTH_REQUEST: "data.size() < 9"
MinAuthRequestSize == 1 + LenBytes + LenBytes

\* a verifier made anew at every request
freshVerifierFor(droneVerifiers, droneId, commitment) ==
    initializeVerifier(setup(NewZKPModule), commitment, droneId)

\* "Create or get verifier for this drone"
verifierFor(droneVerifiers, droneId, commitment) ==
    IF droneId \notin DOMAIN droneVerifiers
    THEN initializeVerifier(setup(NewZKPModule), commitment, droneId)
    ELSE droneVerifiers[droneId]

\* a handleAuthRequest that answers to the address it stored for the identity
handleAuthRequestToStoredAddress(g, data, srcAddr, srcPort, nowv, rnd) ==
    LET g1 == [g EXCEPT !.numAuthRequests = @ + 1]
        failure == Handled(g1, <<AuthFailurePacket(srcAddr, srcPort)>>, rnd)
        idLen == ReadUInt(data, 1, LenBytes)
        offset1 == 1 + LenBytes
        droneId == Slice(data, offset1, offset1 + idLen)
        offset2 == offset1 + idLen
        commitLen == ReadUInt(data, offset2, LenBytes)
        offset3 == offset2 + LenBytes
        commitment == Slice(data, offset3, offset3 + commitLen)
        verifier == verifierFor(g1.droneVerifiers, droneId, commitment)
        gen == generateChallenge(verifier, nowv, rnd + 1)
        stored == IF droneId \in DOMAIN g.droneAddresses
                  THEN g.droneAddresses[droneId] ELSE <<srcAddr, srcPort>>
    IN
    IF Len(data) < MinAuthRequestSize THEN failure
    ELSE IF Len(data) < offset1 + idLen + LenBytes THEN failure
    ELSE IF droneId \notin authorizedDrones
    THEN Handled([g1 EXCEPT !.numAuthFailures = @ + 1],
                 <<AuthFailurePacket(srcAddr, srcPort)>>, rnd)
    ELSE IF Len(data) < offset3 + commitLen THEN failure
    ELSE Handled([g1 EXCEPT !.droneVerifiers = MapPut(@, droneId, gen.z),
                            !.pendingChallenges = MapPut(@, droneId, gen.challenge),
                            !.droneAddresses = MapPut(@, droneId, stored)],
                 <<ChallengePacket(gen.challenge, stored[1], stored[2])>>, rnd + 1)

\* a handleAuthRequest that trusts the commitment's length field
handleAuthRequestUncheckedCommitment(g, data, srcAddr, srcPort, nowv, rnd) ==
    LET g1 == [g EXCEPT !.numAuthRequests = @ + 1]
        failure == Handled(g1, <<AuthFailurePacket(srcAddr, srcPort)>>, rnd)
        idLen == ReadUInt(data, 1, LenBytes)
        offset1 == 1 + LenBytes
        droneId == Slice(data, offset1, offset1 + idLen)
        offset2 == offset1 + idLen
        commitLen == ReadUInt(data, offset2, LenBytes)
        offset3 == offset2 + LenBytes
        commitment == Slice(data, offset3, IF Len(data) < offset3 + commitLen
                                          THEN Len(data) ELSE offset3 + commitLen)
        verifier == verifierFor(g1.droneVerifiers, droneId, commitment)
        gen == generateChallenge(verifier, nowv, rnd + 1)
    IN
    IF Len(data) < MinAuthRequestSize THEN failure
    ELSE IF Len(data) < offset1 + idLen + LenBytes THEN failure
    ELSE IF droneId \notin authorizedDrones
    THEN Handled([g1 EXCEPT !.numAuthFailures = @ + 1],
                 <<AuthFailurePacket(srcAddr, srcPort)>>, rnd)
    ELSE Handled([g1 EXCEPT !.droneVerifiers = MapPut(@, droneId, gen.z),
                            !.pendingChallenges = MapPut(@, droneId, gen.challenge),
                            !.droneAddresses = MapPut(@, droneId, <<srcAddr, srcPort>>)],
                 <<ChallengePacket(gen.challenge, srcAddr, srcPort)>>, rnd + 1)

\* GroundStation::handleAuthRequest; rnd is the last value RAND_bytes returned
handleAuthRequest(g, data, srcAddr, srcPort, nowv, rnd) ==
    LET g1 == [g EXCEPT !.numAuthRequests = @ + 1]
        failure == Handled(g1, <<AuthFailurePacket(srcAddr, srcPort)>>, rnd)
        idLen == ReadUInt(data, 1, LenBytes)
        offset1 == 1 + LenBytes
        droneId == Slice(data, offset1, offset1 + idLen)
        offset2 == offset1 + idLen
        commitLen == ReadUInt(data, offset2, LenBytes)
        offset3 == offset2 + LenBytes
        commitment == Slice(data, offset3, offset3 + commitLen)
        verifier == verifierFor(g1.droneVerifiers, droneId, commitment)
        gen == generateChallenge(verifier, nowv, rnd + 1)
    IN
    IF Len(data) < MinAuthRequestSize THEN failure
    ELSE IF Len(data) < offset1 + idLen + LenBytes THEN failure
    ELSE IF droneId \notin authorizedDrones
    THEN Handled([g1 EXCEPT !.numAuthFailures = @ + 1],
                 <<AuthFailurePacket(srcAddr, srcPort)>>, rnd)
    ELSE IF Len(data) < offset3 + commitLen THEN failure
    ELSE Handled([g1 EXCEPT !.droneVerifiers = MapPut(@, droneId, gen.z),
                            !.pendingChallenges = MapPut(@, droneId, gen.challenge),
                            !.droneAddresses = MapPut(@, droneId, <<srcAddr, srcPort>>)],
                 <<ChallengePacket(gen.challenge, srcAddr, srcPort)>>, rnd + 1)

\* a loop that stops at the first pending challenge, whatever it is
FindDroneIdFirst(pendingChallenges, challenge) ==
    LET hits == DOMAIN pendingChallenges
    IN  IF hits = {} THEN <<>>
        ELSE CHOOSE k \in hits : \A other \in hits \ {k} : StrLess(k, other)

\* the loop over pendingChallenges: the first key, in the order of the map,
\* whose challenge is the proof's; the empty string when there is none
FindDroneId(pendingChallenges, challenge) ==
    LET hits == {k \in DOMAIN pendingChallenges : pendingChallenges[k] = challenge}
    IN  IF hits = {} THEN <<>>
        ELSE CHOOSE k \in hits : \A other \in hits \ {k} : StrLess(k, other)

\* handleProof erasing the pending challenge after every verification
handleDeserializedProofErasing(g, proof, srcAddr, srcPort, nowv, rnd) ==
    LET failure == Handled(g, <<AuthFailurePacket(srcAddr, srcPort)>>, rnd)
        droneId == FindDroneId(g.pendingChallenges, proof.challenge)
    IN
    IF droneId = <<>> THEN {failure}
    ELSE IF droneId \notin DOMAIN g.droneVerifiers THEN {failure}
    ELSE { IF ~v.ok
           THEN Handled([g EXCEPT !.alive = FALSE], <<>>, rnd)
           ELSE IF v.result
           THEN Handled([g EXCEPT !.numAuthSuccess = @ + 1,
                                  !.pendingChallenges = MapErase(@, droneId)],
                        <<AuthSuccessPacket(srcAddr, srcPort)>>, rnd)
           ELSE Handled([g EXCEPT !.numAuthFailures = @ + 1,
                                  !.pendingChallenges = MapErase(@, droneId)],
                        <<AuthFailurePacket(srcAddr, srcPort)>>, rnd)
         : v \in verifyProof(g.droneVerifiers[droneId], proof, nowv) }

\* handleProof keeping the pending challenge after a success
handleDeserializedProofKeeping(g, proof, srcAddr, srcPort, nowv, rnd) ==
    LET failure == Handled(g, <<AuthFailurePacket(srcAddr, srcPort)>>, rnd)
        droneId == FindDroneId(g.pendingChallenges, proof.challenge)
    IN
    IF droneId = <<>> THEN {failure}
    ELSE IF droneId \notin DOMAIN g.droneVerifiers THEN {failure}
    ELSE { IF ~v.ok
           THEN Handled([g EXCEPT !.alive = FALSE], <<>>, rnd)
           ELSE IF v.result
           THEN Handled([g EXCEPT !.numAuthSuccess = @ + 1],
                        <<AuthSuccessPacket(srcAddr, srcPort)>>, rnd)
           ELSE Handled([g EXCEPT !.numAuthFailures = @ + 1],
                        <<AuthFailurePacket(srcAddr, srcPort)>>, rnd)
         : v \in verifyProof(g.droneVerifiers[droneId], proof, nowv) }

\* handleProof counting a proof with an unknown challenge as a failure
handleDeserializedProofCountingUnknown(g, proof, srcAddr, srcPort, nowv, rnd) ==
    LET failure == Handled(g, <<AuthFailurePacket(srcAddr, srcPort)>>, rnd)
        droneId == FindDroneId(g.pendingChallenges, proof.challenge)
    IN
    IF droneId = <<>>
    THEN {Handled([g EXCEPT !.numAuthFailures = @ + 1],
                  <<AuthFailurePacket(srcAddr, srcPort)>>, rnd)}
    ELSE IF droneId \notin DOMAIN g.droneVerifiers THEN {failure}
    ELSE { IF ~v.ok
           THEN Handled([g EXCEPT !.alive = FALSE], <<>>, rnd)
           ELSE IF v.result
           THEN Handled([g EXCEPT !.numAuthSuccess = @ + 1,
                                  !.pendingChallenges = MapErase(@, droneId)],
                        <<AuthSuccessPacket(srcAddr, srcPort)>>, rnd)
           ELSE Handled([g EXCEPT !.numAuthFailures = @ + 1],
                        <<AuthFailurePacket(srcAddr, srcPort)>>, rnd)
         : v \in verifyProof(g.droneVerifiers[droneId], proof, nowv) }

\* handleProof dropping the session of an accepted proof, verifier and all
handleDeserializedProofErasingVerifier(g, proof, srcAddr, srcPort, nowv, rnd) ==
    LET failure == Handled(g, <<AuthFailurePacket(srcAddr, srcPort)>>, rnd)
        droneId == FindDroneId(g.pendingChallenges, proof.challenge)
    IN
    IF droneId = <<>> THEN {failure}
    ELSE IF droneId \notin DOMAIN g.droneVerifiers THEN {failure}
    ELSE { IF ~v.ok
           THEN Handled([g EXCEPT !.alive = FALSE], <<>>, rnd)
           ELSE IF v.result
           THEN Handled([g EXCEPT !.numAuthSuccess = @ + 1,
                                  !.droneVerifiers = MapErase(@, droneId)],
                        <<AuthSuccessPacket(srcAddr, srcPort)>>, rnd)
           ELSE Handled([g EXCEPT !.numAuthFailures = @ + 1],
                        <<AuthFailurePacket(srcAddr, srcPort)>>, rnd)
         : v \in verifyProof(g.droneVerifiers[droneId], proof, nowv) }

\* GroundStation::handleProof from "Find drone ID from challenge" on
handleDeserializedProof(g, proof, srcAddr, srcPort, nowv, rnd) ==
    LET failure == Handled(g, <<AuthFailurePacket(srcAddr, srcPort)>>, rnd)
        droneId == FindDroneId(g.pendingChallenges, proof.challenge)
    IN
    IF droneId = <<>> THEN {failure}
    ELSE IF droneId \notin DOMAIN g.droneVerifiers THEN {failure}
    ELSE { IF ~v.ok
           THEN Handled([g EXCEPT !.alive = FALSE], <<>>, rnd)
           ELSE IF v.result
           THEN Handled([g EXCEPT !.numAuthSuccess = @ + 1,
                                  !.pendingChallenges = MapErase(@, droneId)],
                        <<AuthSuccessPacket(srcAddr, srcPort)>>, rnd)
           ELSE Handled([g EXCEPT !.numAuthFailures = @ + 1],
                        <<AuthFailurePacket(srcAddr, srcPort)>>, rnd)
         : v \in verifyProof(g.droneVerifiers[droneId], proof, nowv) }

\* GroundStation::handleProof: the set of ways the call can end
handleProof(g, data, srcAddr, srcPort, nowv, rnd, garbage) ==
    LET failure == Handled(g, <<AuthFailurePacket(srcAddr, srcPort)>>, rnd)
    IN
    IF Len(data) < 2 THEN {failure}
    ELSE UNION {
           IF d.kind = "throw" THEN {failure}
           ELSE IF d.kind = "crash" THEN {Handled([g EXCEPT !.alive = FALSE], <<>>, rnd)}
           ELSE handleDeserializedProof(g, d.proof, srcAddr, srcPort, nowv, rnd)
         : d \in deserializeOutcomes(Tail(data), garbage) }

\* GroundStation::handleMessageWhenUp for a Packet
handleMessageWhenUp(g, data, srcAddr, srcPort, nowv, rnd, garbage) ==
    IF Len(data) < 1 THEN {Handled(g, <<>>, rnd)}
    ELSE IF data[1] = TypeAuthRequest
    THEN {handleAuthRequest(g, data, srcAddr, srcPort, nowv, rnd)}
    ELSE IF data[1] = TypeProof
    THEN handleProof(g, data, srcAddr, srcPort, nowv, rnd, garbage)
    ELSE {Handled(g, <<>>, rnd)}

---------------------------------------------------------------------------
(* Configuration: the parameters of the modules. The ports and the password
   "secure" are the ones launch_demo.sh writes; password is a parameter of
   every drone, and the second drone is given another one *)

GroundStationPort == 5000
DronePort == 6000
GroundStationAddress == "10.0.0.1"

SecurePassword == <<115, 101>>
OtherPassword == <<120>>

\* one entry per drone: its parameters, the nonce its prover draws and its address
DroneConfig ==
    << [droneId |-> DroneName(1), password |-> SecurePassword,
        nonce |-> <<201>>, address |-> "10.0.0.2"],
       [droneId |-> DroneName(2), password |-> OtherPassword,
        nonce |-> <<202>>, address |-> "10.0.0.3"] >>

Drones == 1..Len(DroneConfig)

\* DroneAuthApp::initialize: new ZKPModule(droneId), setup, initializeProver, createCommitment
NewProver(droneId, password, nonce) ==
    createCommitment(
        initializeProver(setup([NewZKPModule EXCEPT !.droneId = droneId]),
                         droneId, password, nonce)).z

\* the message DroneAuthApp::sendAuthenticationRequest builds
AuthRequestMessage(droneId, commitment) ==
    <<TypeAuthRequest>> \o ToBytes(Len(droneId), LenBytes) \o droneId
    \o ToBytes(Len(commitment), LenBytes) \o commitment

\* the message DroneAuthApp::sendZKProof builds
ProofMessage(proof) == <<TypeProof>> \o serialize(proof)

---------------------------------------------------------------------------
(* The datagrams the ground station is tried on *)

\* what socket delivers: the bytes and where they came from
Datagram(data, srcAddr, srcPort) == [data |-> data, srcAddr |-> srcAddr, srcPort |-> srcPort]

SourceAddresses == {DroneConfig[d].address : d \in Drones}

\* the commitment of the drone at an address
CommitmentAt(address) ==
    LET d == CHOOSE x \in Drones : DroneConfig[x].address = address
    IN  getCommitment(NewProver(DroneConfig[d].droneId, DroneConfig[d].password,
                                DroneConfig[d].nonce))

InputIds == {DroneName(1), DroneName(2), DroneName(6)}

InputCommitments == {CommitmentAt(a) : a \in SourceAddresses}

GoodProofData == [i \in 1..DigestLen |-> 0]
ShortProofData == [i \in 1..(DigestLen - 1) |-> 0]

\* a challenge no request was answered with
UnknownChallenge == <<0, 0>>

\* a timestamp at a distance from the clock, as the unsigned value sent
TimestampAt(nowv, distance) == (nowv + TsMod + distance) % TsMod

\* distances from the clock: none, the edges of the freshness window on both
\* sides, and half the range of the timestamp
InputDistances ==
    {0, -FreshnessWindow, -(FreshnessWindow + 1), FreshnessWindow,
     FreshnessWindow + 1, TsMod \div 2}

\* what the bytes after a buffer may hold: a proof the ground station would
\* accept (its own maps are in the same memory) and one it would not
GarbageProofs(g, nowv) ==
    {ZKProof(GoodProofData, g.droneVerifiers[k].publicCommitment,
             g.pendingChallenges[k], nowv) : k \in DOMAIN g.pendingChallenges}
    \cup {ZKProof(<<>>, <<>>, UnknownChallenge, 0)}

Prefixes(data) == {SubSeq(data, 1, k) : k \in 1..(Len(data) - 1)}

\* requests: every identity from every source with the source's commitment,
\* and the truncations of one request
EnvAuthRequests ==
    {Datagram(AuthRequestMessage(id, CommitmentAt(a)), a, DronePort) :
        id \in InputIds, a \in SourceAddresses}
    \cup {Datagram(data, CHOOSE a \in SourceAddresses : TRUE, DronePort) :
            data \in Prefixes(AuthRequestMessage(DroneName(1),
                                 CommitmentAt(CHOOSE a \in SourceAddresses : TRUE)))}

\* proofs: with the clock's time, every issued challenge with every
\* commitment; for the pending challenges also a short proofData, a stale
\* timestamp and one half the range away; and two truncations
EnvProofs(g, issued, nowv) ==
    {Datagram(ProofMessage(ZKProof(GoodProofData, c, ch, nowv)),
              CHOOSE a \in SourceAddresses : TRUE, DronePort) :
        c \in InputCommitments, ch \in issued \cup {UnknownChallenge}}
    \cup
    {Datagram(ProofMessage(p), CHOOSE a \in SourceAddresses : TRUE, DronePort) :
        p \in UNION {{ZKProof(ShortProofData, g.droneVerifiers[k].publicCommitment,
                              g.pendingChallenges[k], nowv),
                      ZKProof(GoodProofData, g.droneVerifiers[k].publicCommitment,
                              g.pendingChallenges[k],
                              TimestampAt(nowv, -(FreshnessWindow + 1))),
                      ZKProof(GoodProofData, g.droneVerifiers[k].publicCommitment,
                              g.pendingChallenges[k], TimestampAt(nowv, TsMod \div 2))} :
                     k \in DOMAIN g.pendingChallenges}}
    \cup
    {Datagram(data, CHOOSE a \in SourceAddresses : TRUE, DronePort) :
        data \in {<<TypeProof>>,
                  <<TypeProof>> \o ToBytes(DigestLen, LenBytes) \o GoodProofData}}

EnvOthers ==
    {Datagram(data, CHOOSE a \in SourceAddresses : TRUE, DronePort) :
        data \in {<<>>, <<TypeChallenge>>, <<TypeAuthSuccess>>, <<9, 9>>}}

---------------------------------------------------------------------------
(* The ground station and its clock *)

NoHistory == [issued |-> {}, accepted |-> {}, issuedFor |-> {}, drone |-> <<>>]

\* the challenge a CHALLENGE packet carries
ChallengeOf(packet) == Slice(packet.data, 1 + LenBytes, Len(packet.data))

\* the identity an AUTH_REQUEST names
RequestedId(data) ==
    Slice(data, 1 + LenBytes, 1 + LenBytes + ReadUInt(data, 1, LenBytes))

IsReply(out, type) == Len(out) = 1 /\ out[1].data[1] = type

\* the history after a handler that found g, was given dg and left r: the
\* challenges sent, the ones a proof was accepted against, and for every
\* challenge sent the identity that was named and the address that asked
Recorded(h, g, dg, r) ==
    [issued |-> h.issued \cup
                 (IF IsReply(r.out, TypeChallenge) THEN {ChallengeOf(r.out[1])} ELSE {}),
     accepted |-> h.accepted \cup
                 (IF IsReply(r.out, TypeAuthSuccess)
                  THEN {g.pendingChallenges[k] :
                          k \in (DOMAIN g.pendingChallenges) \ (DOMAIN r.gs.pendingChallenges)}
                  ELSE {}),
     issuedFor |-> h.issuedFor \cup
                 (IF IsReply(r.out, TypeChallenge)
                  THEN {[challenge |-> ChallengeOf(r.out[1]),
                         droneId |-> RequestedId(dg.data),
                         requester |-> dg.srcAddr]}
                  ELSE {}),
     drone |-> h.drone]

WithinBounds(g) ==
    /\ g.numAuthRequests <= MaxRequests
    /\ g.numAuthFailures <= MaxFailures

\* every way the ground station can handle a datagram in the current state
Handle(dg) ==
    handleMessageWhenUp(gs, dg.data, dg.srcAddr, dg.srcPort, now, rand,
                        GarbageProofs(gs, now))

\* the ground station handles one datagram to completion, in the way r
ReceiveAs(dg, r) ==
    /\ gs.alive
    /\ r \in Handle(dg)
    /\ WithinBounds(r.gs)
    /\ gs' = r.gs
    /\ rand' = r.rand
    /\ hist' = Recorded(hist, gs, dg, r)

Receive(dg) == \E r \in Handle(dg) : ReceiveAs(dg, r)

ReceiveAuthRequest ==
    /\ \E dg \in EnvAuthRequests : Receive(dg)
    /\ UNCHANGED <<now, app, net>>

ReceiveProof ==
    /\ \E dg \in EnvProofs(gs, hist.issued, now) : Receive(dg)
    /\ UNCHANGED <<now, app, net>>

ReceiveOther ==
    /\ \E dg \in EnvOthers : Receive(dg)
    /\ UNCHANGED <<now, app, net>>

\* the wall clock advances
Tick ==
    /\ now + TickStep <= MaxNow
    /\ now' = now + TickStep
    /\ UNCHANGED <<gs, rand, app, net, hist>>

Init ==
    /\ gs = NewGroundStation
    /\ now = 0
    /\ rand = 0
    /\ app = <<>>
    /\ net = {}
    /\ hist = NoHistory

Next ==
    \/ ReceiveAuthRequest
    \/ ReceiveProof
    \/ ReceiveOther
    \/ Tick

Spec == Init /\ [][Next]_vars

---------------------------------------------------------------------------
(* A program that serializes a proof and reads it back. In this
   specification app is that program: the proof it was given, the buffer
   serialize returned and what deserialize made of the buffer. *)

\* the largest size a length field of the buffer can hold (uint32_t)
MaxFieldLen == Pow256(LenBytes) - 1

Filled(n) == [i \in 1..n |-> i % 256]

ShortFields == {<<>>, <<7>>, <<0, 255>>}

\* proofs with empty, short and unequal fields and timestamps over the whole
\* range, and proofs with one field of the largest size that fits a length
\* field and of one more
ProofInputs ==
    {ZKProof(pd, c, ch, ts) :
        pd \in ShortFields, c \in ShortFields, ch \in ShortFields,
        ts \in {0, 1, TsMod \div 2, TsMod - 1}}
    \cup {ZKProof(Filled(n), <<>>, <<>>, 1) : n \in {MaxFieldLen, MaxFieldLen + 1}}
    \cup {ZKProof(<<1>>, Filled(n), <<2>>, 0) : n \in {MaxFieldLen, MaxFieldLen + 1}}
    \cup {ZKProof(<<>>, <<3>>, Filled(n), TsMod - 1) : n \in {MaxFieldLen, MaxFieldLen + 1}}

Serialize ==
    /\ app.pc = "proof"
    /\ app' = [app EXCEPT !.pc = "serialized", !.data = serialize(app.proof)]
    /\ UNCHANGED <<gs, now, rand, net, hist>>

Deserialize ==
    /\ app.pc = "serialized"
    /\ \E r \in deserializeOutcomes(app.data, {}) :
          app' = [app EXCEPT !.pc = "deserialized", !.result = r]
    /\ UNCHANGED <<gs, now, rand, net, hist>>

InitCodec ==
    /\ gs = NewGroundStation
    /\ now = 0
    /\ rand = 0
    /\ \E p \in ProofInputs :
          app = [pc |-> "proof", proof |-> p, data |-> <<>>, result |-> [kind |-> "none"]]
    /\ net = {}
    /\ hist = NoHistory

NextCodec ==
    \/ Serialize
    \/ Deserialize

SpecCodec == InitCodec /\ [][NextCodec]_vars

---------------------------------------------------------------------------
(* One ZKPModule, its methods called in every order. app holds the module,
   which of the two initializations was called since the constructor or the
   last reset, whether reset was ever called, and how the last call of a
   method that can throw ended *)

\* the proofs given to verifyProof: each commitment, fresh and stale, and a
\* proofData of the wrong size
EngineProofs ==
    {ZKProof(pd, c, UnknownChallenge, TimestampAt(0, d)) :
        pd \in {GoodProofData, ShortProofData}, c \in InputCommitments,
        d \in {0, -(FreshnessWindow + 1)}}

\* the challenges given to generateProof
EngineChallenges == {UnknownChallenge, <<>>}

NoCall == [op |-> "none", ok |-> TRUE, changed |-> FALSE, afterReset |-> FALSE]

\* a call of op that found the module z and left it as after
Called(op, ok, z, after) ==
    [op |-> op, ok |-> ok, changed |-> after # z, afterReset |-> app.called.reset]

EngineSetup ==
    /\ app' = [app EXCEPT !.z = setup(@)]
    /\ UNCHANGED <<gs, now, rand, net, hist>>

EngineInitializeProver ==
    /\ \E d \in Drones :
          app' = [app EXCEPT !.z = initializeProver(@, DroneConfig[d].droneId,
                                                    DroneConfig[d].password,
                                                    DroneConfig[d].nonce),
                             !.called.prover = TRUE]
    /\ UNCHANGED <<gs, now, rand, net, hist>>

EngineCreateCommitment ==
    /\ LET r == createCommitment(app.z)
       IN  app' = [app EXCEPT !.z = r.z,
                              !.last = Called("createCommitment", r.ok, app.z, r.z)]
    /\ UNCHANGED <<gs, now, rand, net, hist>>

EngineGenerateProof ==
    /\ \E ch \in EngineChallenges \cup {app.z.lastChallenge} :
          LET r == generateProof(app.z, ch, now)
          IN  app' = [app EXCEPT !.z = r.z,
                                 !.last = Called("generateProof", r.ok, app.z, r.z)]
    /\ UNCHANGED <<gs, now, rand, net, hist>>

EngineInitializeVerifier ==
    /\ \E c \in InputCommitments, d \in Drones :
          app' = [app EXCEPT !.z = initializeVerifier(@, c, DroneConfig[d].droneId),
                             !.called.verifier = TRUE]
    /\ UNCHANGED <<gs, now, rand, net, hist>>

EngineGenerateChallenge ==
    /\ rand < MaxRequests
    /\ app' = [app EXCEPT !.z = generateChallenge(@, now, rand + 1).z]
    /\ rand' = rand + 1
    /\ UNCHANGED <<gs, now, net, hist>>

EngineVerifyProof ==
    /\ \E p \in EngineProofs : \E v \in verifyProof(app.z, p, now) :
          app' = [app EXCEPT !.last = Called("verifyProof", v.ok, app.z, app.z)]
    /\ UNCHANGED <<gs, now, rand, net, hist>>

EngineReset ==
    /\ app' = [app EXCEPT !.z = reset(@),
                          !.called = [prover |-> FALSE, verifier |-> FALSE, reset |-> TRUE]]
    /\ UNCHANGED <<gs, now, rand, net, hist>>

\* ZKPModule() and ZKPModule(id)
InitEngine ==
    /\ gs = NewGroundStation
    /\ now = 0
    /\ rand = 0
    /\ \E id \in {<<>>, DroneName(1)} :
          app = [z |-> [NewZKPModule EXCEPT !.droneId = id],
                 called |-> [prover |-> FALSE, verifier |-> FALSE, reset |-> FALSE],
                 last |-> NoCall]
    /\ net = {}
    /\ hist = NoHistory

NextEngine ==
    \/ EngineSetup
    \/ EngineInitializeProver
    \/ EngineCreateCommitment
    \/ EngineGenerateProof
    \/ EngineInitializeVerifier
    \/ EngineGenerateChallenge
    \/ EngineVerifyProof
    \/ EngineReset

SpecEngine == InitEngine /\ [][NextEngine]_vars

---------------------------------------------------------------------------
(* DroneAuthApp *)

MSG_SEND_AUTH_REQUEST == 1
MSG_SEND_PROOF == 2
MSG_AUTH_TIMEOUT == 3

\* the constructor and initialize(INITSTAGE_LOCAL). selfMsg and timeoutMsg
\* are "null", "idle" (allocated, not scheduled) or "scheduled"; selfMsgAfter
\* is the delay selfMsg is scheduled with. timeoutEvents is the set of
\* authTimeout messages scheduled in the simulation's event set and
\* timeoutId the one timeoutMsg points to (0: nullptr); an authTimeout
\* message is named by the number of the request it was made for. proofMsgs
\* counts the scheduled sendProof messages; failed is a cRuntimeError
NewDroneAuthApp(cfg) ==
    [droneId |-> cfg.droneId, password |-> cfg.password, address |-> cfg.address,
     zkpModule |-> NewProver(cfg.droneId, cfg.password, cfg.nonce),
     selfMsg |-> "idle", selfMsgAfter |-> "",
     timeoutMsg |-> "null", timeoutId |-> 0, timeoutEvents |-> {},
     proofMsgs |-> 0,
     currentChallenge |-> <<>>,
     numAuthRequests |-> 0, numAuthSuccess |-> 0, numAuthFailures |-> 0,
     colour |-> "", text |-> "", up |-> FALSE, failed |-> FALSE]

\* what a handler of the drone leaves: the object and the packets sent
Acted(a, out) == [app |-> a, out |-> out]

\* DroneAuthApp::sendPacket
sendPacket(a, data) == <<Packet(data, GroundStationAddress, GroundStationPort)>>

\* "if (timeoutMsg != nullptr) { if (isScheduled) cancelEvent; delete; = nullptr }"
cancelAndDeleteTimeout(a) ==
    IF a.timeoutMsg = "null" THEN a
    ELSE [a EXCEPT !.timeoutEvents = @ \ {a.timeoutId},
                   !.timeoutMsg = "null", !.timeoutId = 0]

\* a request that arms a new timeout and leaves the old one scheduled
sendAuthenticationRequestLeaking(a) ==
    LET a1 == [a EXCEPT !.numAuthRequests = @ + 1]
    IN  Acted([a1 EXCEPT !.timeoutMsg = "scheduled",
                         !.timeoutId = a1.numAuthRequests,
                         !.timeoutEvents = @ \cup {a1.numAuthRequests}],
              sendPacket(a, AuthRequestMessage(a.droneId, getCommitment(a.zkpModule))))

sendAuthenticationRequest(a) ==
    LET a1 == [a EXCEPT !.numAuthRequests = @ + 1]
        a2 == cancelAndDeleteTimeout(a1)
    IN  Acted([a2 EXCEPT !.timeoutMsg = "scheduled",
                         !.timeoutId = a1.numAuthRequests,
                         !.timeoutEvents = @ \cup {a1.numAuthRequests}],
              sendPacket(a, AuthRequestMessage(a.droneId, getCommitment(a.zkpModule))))

\* a CHALLENGE that schedules the proof and does not keep the challenge
handleChallengeMessageForgetting(a, data) ==
    LET chalLen == ReadUInt(data, 1, LenBytes)
        offset == 1 + LenBytes
    IN  IF Len(data) < 1 + LenBytes THEN Acted(a, <<>>)
        ELSE IF Len(data) < offset + chalLen THEN Acted(a, <<>>)
        ELSE Acted([a EXCEPT !.proofMsgs = @ + 1], <<>>)

\* a CHALLENGE taken without comparing its length field with the buffer
handleChallengeMessageUnchecked(a, data) ==
    LET chalLen == ReadUInt(data, 1, LenBytes)
        offset == 1 + LenBytes
    IN  IF Len(data) < 1 + LenBytes THEN Acted(a, <<>>)
        ELSE Acted([a EXCEPT !.currentChallenge =
                                 Slice(data, offset, IF Len(data) < offset + chalLen
                                                     THEN Len(data) ELSE offset + chalLen),
                             !.proofMsgs = @ + 1], <<>>)

handleChallengeMessage(a, data) ==
    LET chalLen == ReadUInt(data, 1, LenBytes)
        offset == 1 + LenBytes
    IN  IF Len(data) < 1 + LenBytes THEN Acted(a, <<>>)
        ELSE IF Len(data) < offset + chalLen THEN Acted(a, <<>>)
        ELSE Acted([a EXCEPT !.currentChallenge = Slice(data, offset, offset + chalLen),
                             !.proofMsgs = @ + 1], <<>>)

\* a proof whose sending stops the timeout
sendZKProofCancelling(a, nowv) ==
    LET g == generateProof(a.zkpModule, a.currentChallenge, nowv % TsMod)
    IN  IF ~g.ok THEN Acted([a EXCEPT !.failed = TRUE], <<>>)
        ELSE Acted([cancelAndDeleteTimeout(a) EXCEPT !.zkpModule = g.z],
                   sendPacket(a, ProofMessage(g.proof)))

sendZKProof(a, nowv) ==
    LET g == generateProof(a.zkpModule, a.currentChallenge, nowv % TsMod)
    IN  IF ~g.ok THEN Acted([a EXCEPT !.failed = TRUE], <<>>)
        ELSE Acted([a EXCEPT !.zkpModule = g.z], sendPacket(a, ProofMessage(g.proof)))

\* AUTH_SUCCESS that leaves the retry scheduled
handleAuthSuccessMessageKeepingRetry(a, data) ==
    Acted([cancelAndDeleteTimeout(a) EXCEPT
               !.numAuthSuccess = @ + 1,
               !.colour = "green", !.text = "Authenticated"], <<>>)

handleAuthSuccessMessage(a, data) ==
    Acted([cancelAndDeleteTimeout(a) EXCEPT
               !.selfMsg = IF @ = "scheduled" THEN "idle" ELSE @,
               !.selfMsgAfter = "",
               !.numAuthSuccess = @ + 1,
               !.colour = "green", !.text = "Authenticated"], <<>>)

\* AUTH_FAILURE that schedules a retry as the timeout does
handleAuthFailureMessageRetrying(a, data) ==
    Acted([cancelAndDeleteTimeout(a) EXCEPT
               !.selfMsg = "scheduled", !.selfMsgAfter = "retryInterval",
               !.numAuthFailures = @ + 1,
               !.colour = "red", !.text = "Auth Failed"], <<>>)

handleAuthFailureMessage(a, data) ==
    Acted([cancelAndDeleteTimeout(a) EXCEPT
               !.numAuthFailures = @ + 1,
               !.colour = "red", !.text = "Auth Failed"], <<>>)

\* a timeout that schedules no retry
handleAuthTimeoutNoRetry(a) ==
    Acted([a EXCEPT !.timeoutMsg = "null", !.timeoutId = 0,
                    !.numAuthFailures = @ + 1, !.colour = "red"], <<>>)

\* timeoutMsg is deleted: the message that has just arrived. Deleting a
\* message that is scheduled, and scheduleAt of a message that is scheduled
\* already, are errors of the simulation kernel
handleAuthTimeout(a) ==
    LET a1 == [a EXCEPT !.timeoutMsg = "null", !.timeoutId = 0,
                        !.numAuthFailures = @ + 1, !.colour = "red"]
    IN  IF a.timeoutMsg = "scheduled" THEN Acted([a1 EXCEPT !.failed = TRUE], <<>>)
        ELSE IF a1.selfMsg = "scheduled" THEN Acted([a1 EXCEPT !.failed = TRUE], <<>>)
        ELSE Acted([a1 EXCEPT !.selfMsg = "scheduled",
                              !.selfMsgAfter = "retryInterval"], <<>>)

handleSelfMessage(a, kind, nowv) ==
    IF kind = MSG_SEND_AUTH_REQUEST THEN sendAuthenticationRequest(a)
    ELSE IF kind = MSG_SEND_PROOF THEN sendZKProof(a, nowv)
    ELSE IF kind = MSG_AUTH_TIMEOUT THEN handleAuthTimeout(a)
    ELSE Acted([a EXCEPT !.failed = TRUE], <<>>)

handleIncomingMessage(a, data) ==
    IF Len(data) < 1 THEN Acted(a, <<>>)
    ELSE IF data[1] = TypeChallenge THEN handleChallengeMessage(a, data)
    ELSE IF data[1] = TypeAuthSuccess THEN handleAuthSuccessMessage(a, data)
    ELSE IF data[1] = TypeAuthFailure THEN handleAuthFailureMessage(a, data)
    ELSE Acted(a, <<>>)

handleStartOperation(a) ==
    IF a.selfMsg = "scheduled" THEN Acted([a EXCEPT !.up = TRUE, !.failed = TRUE], <<>>)
    ELSE Acted([a EXCEPT !.up = TRUE, !.selfMsg = "scheduled",
                         !.selfMsgAfter = "startTime"], <<>>)

\* a stop that closes the socket and leaves the timers as they are
handleStopOperationKeepingTimers(a) == Acted([a EXCEPT !.up = FALSE], <<>>)

\* cancelEvent of selfMsg and of timeoutMsg where scheduled (timeoutMsg is
\* not deleted), socket.close()
handleStopOperation(a) ==
    Acted([a EXCEPT !.selfMsg = IF @ = "scheduled" THEN "idle" ELSE @,
                    !.selfMsgAfter = "",
                    !.timeoutEvents = IF a.timeoutMsg = "scheduled"
                                      THEN @ \ {a.timeoutId} ELSE @,
                    !.timeoutMsg = IF @ = "scheduled" THEN "idle" ELSE @,
                    !.up = FALSE], <<>>)

\* the same cancellations, socket.destroy()
handleCrashOperation(a) ==
    Acted([a EXCEPT !.selfMsg = IF @ = "scheduled" THEN "idle" ELSE @,
                    !.selfMsgAfter = "",
                    !.timeoutEvents = IF a.timeoutMsg = "scheduled"
                                      THEN @ \ {a.timeoutId} ELSE @,
                    !.timeoutMsg = IF @ = "scheduled" THEN "idle" ELSE @,
                    !.up = FALSE], <<>>)

---------------------------------------------------------------------------
(* The drones, the ground station and the network between them *)

\* a host that is no drone of the simulation
ForeignAddress == "10.0.0.9"
ForeignCommitment == [i \in 1..DigestLen |-> 255]

\* a packet on its way: what was sent, and by whom
InFlight(packet, srcAddr, srcPort) ==
    [data |-> packet.data, destAddr |-> packet.destAddr, destPort |-> packet.destPort,
     srcAddr |-> srcAddr, srcPort |-> srcPort]

SentBy(out, srcAddr, srcPort) == {InFlight(out[i], srcAddr, srcPort) : i \in 1..Len(out)}

ToGroundStation(pkt) ==
    pkt.destAddr = GroundStationAddress /\ pkt.destPort = GroundStationPort

ToDrone(pkt, d) == pkt.destAddr = app[d].address /\ pkt.destPort = DronePort

DatagramOf(pkt) == Datagram(pkt.data, pkt.srcAddr, pkt.srcPort)

Running(d) == app[d].up /\ ~app[d].failed

\* what is remembered of a drone: the authTimeout messages that have
\* arrived, and what the drone waits for: "challenge" after an AUTH_REQUEST,
\* "proving" from a CHALLENGE to its proof, "result" after a PROOF, "nothing"
\* after a result or a timeout
NoDroneHistory == [fired |-> {}, awaiting |-> "nothing"]

\* what the drone waits for after a packet that found a and left r
AwaitingAfter(w, a, data, r) ==
    IF Len(data) < 1 THEN w
    ELSE IF data[1] = TypeChallenge
    THEN (IF r.app.proofMsgs > a.proofMsgs THEN "proving" ELSE w)
    ELSE IF data[1] \in {TypeAuthSuccess, TypeAuthFailure} THEN "nothing"
    ELSE w

\* a drone's handler runs to completion and its packets go on the network;
\* n is what is remembered of the drone afterwards
DroneActs(d, r, n) ==
    /\ app' = [app EXCEPT ![d] = r.app]
    /\ net' = net \cup SentBy(r.out, app[d].address, DronePort)
    /\ Cardinality(net') <= MaxInFlight
    /\ hist' = [hist EXCEPT !.drone[d] = n]
    /\ UNCHANGED <<gs, now, rand>>

StartOperation(d) ==
    /\ ~app[d].up
    /\ DroneActs(d, handleStartOperation(app[d]), hist.drone[d])

\* selfMsg arrives
SendAuthRequestTimer(d) ==
    /\ Running(d)
    /\ app[d].selfMsg = "scheduled"
    /\ app[d].numAuthRequests < MaxDroneRequests
    /\ DroneActs(d, handleSelfMessage([app[d] EXCEPT !.selfMsg = "idle",
                                                      !.selfMsgAfter = ""],
                                     MSG_SEND_AUTH_REQUEST, now),
                 [hist.drone[d] EXCEPT !.awaiting = "challenge"])

\* a sendProof message arrives
SendProofTimer(d) ==
    /\ Running(d)
    /\ app[d].proofMsgs > 0
    /\ LET r == handleSelfMessage([app[d] EXCEPT !.proofMsgs = @ - 1],
                                  MSG_SEND_PROOF, now)
       IN  DroneActs(d, r, [hist.drone[d] EXCEPT
                               !.awaiting = IF r.out # <<>> THEN "result" ELSE @])

\* the drone when the authTimeout message id is taken from the event set
TimeoutArrived(a, id) ==
    [a EXCEPT !.timeoutEvents = @ \ {id},
              !.timeoutMsg = IF id = a.timeoutId THEN "idle" ELSE @]

\* an authTimeout message arrives
AuthTimeout(d) ==
    /\ Running(d)
    /\ \E id \in app[d].timeoutEvents :
          DroneActs(d, handleSelfMessage(TimeoutArrived(app[d], id), MSG_AUTH_TIMEOUT, now),
                    [hist.drone[d] EXCEPT !.fired = @ \cup {id}, !.awaiting = "nothing"])

\* a packet arrives at a drone
DroneReceives(d) ==
    /\ Running(d)
    /\ \E pkt \in net :
          /\ ToDrone(pkt, d)
          /\ LET r == handleIncomingMessage(app[d], pkt.data)
             IN  /\ app' = [app EXCEPT ![d] = r.app]
                 /\ hist' = [hist EXCEPT !.drone[d].awaiting =
                                 AwaitingAfter(@, app[d], pkt.data, r)]
          /\ net' = net \ {pkt}
    /\ UNCHANGED <<gs, now, rand>>

\* a packet arrives at the ground station
GroundStationReceives ==
    /\ \E pkt \in net :
          /\ ToGroundStation(pkt)
          /\ \E r \in Handle(DatagramOf(pkt)) :
                /\ ReceiveAs(DatagramOf(pkt), r)
                /\ net' = (net \ {pkt})
                          \cup SentBy(r.out, GroundStationAddress, GroundStationPort)
    /\ UNCHANGED <<now, app>>

\* UDP loses a packet, or it is for a host that is not there
Lose ==
    /\ \E pkt \in net : net' = net \ {pkt}
    /\ UNCHANGED <<gs, now, rand, app, hist>>

\* a foreign host asks for a challenge in the name of a drone; the answer
\* goes to the foreign host
ForeignRequest ==
    /\ \E d \in Drones :
          Receive(Datagram(AuthRequestMessage(DroneConfig[d].droneId, ForeignCommitment),
                           ForeignAddress, DronePort))
    /\ UNCHANGED <<now, app, net>>

InitSystem ==
    /\ gs = NewGroundStation
    /\ now = 0
    /\ rand = 0
    /\ app = [d \in Drones |-> NewDroneAuthApp(DroneConfig[d])]
    /\ net = {}
    /\ hist = [NoHistory EXCEPT !.drone = [d \in Drones |-> NoDroneHistory]]

NextSystem ==
    \/ \E d \in Drones : StartOperation(d)
    \/ \E d \in Drones : SendAuthRequestTimer(d)
    \/ \E d \in Drones : SendProofTimer(d)
    \/ \E d \in Drones : AuthTimeout(d)
    \/ \E d \in Drones : DroneReceives(d)
    \/ GroundStationReceives
    \/ Lose
    \/ ForeignRequest
    \/ Tick

SpecSystem == InitSystem /\ [][NextSystem]_vars

---------------------------------------------------------------------------
(* What the claims are tried on *)

ProofDatagram(p, a) == Datagram(ProofMessage(p), a, DronePort)

AuthRequestDatagram(id, c, a) == Datagram(AuthRequestMessage(id, c), a, DronePort)

\* the type byte of a datagram, 0 for the empty one
TypeOf(dg) == IF dg.data = <<>> THEN 0 ELSE dg.data[1]

\* the range of a map
Values(m) == {m[k] : k \in DOMAIN m}

\* proofs with every proofData, commitment and known challenge, fresh and stale
TriedProofs ==
    {ZKProof(pd, c, ch, TimestampAt(now, d)) :
        pd \in {GoodProofData, ShortProofData}, c \in InputCommitments,
        ch \in hist.issued \cup {UnknownChallenge},
        d \in {0, -(FreshnessWindow + 1)}}

\* the source the proofs tried come from: no check reads it
ProofSource == CHOOSE a \in SourceAddresses : TRUE

\* the proof the ground station's checks all pass for, against session k
PassingProof(g, k, nowv) ==
    ZKProof(GoodProofData, g.droneVerifiers[k].publicCommitment,
            g.pendingChallenges[k], nowv)

\* the sessions a proof's challenge is the pending challenge of
SessionsOf(g, proof) ==
    {k \in DOMAIN g.pendingChallenges : g.pendingChallenges[k] = proof.challenge}

---------------------------------------------------------------------------
(* C1 *)

\* C1: the ground station answers a PROOF with AUTH_SUCCESS only if the
\* proof's commitment is the one stored for an identity whose pending
\* challenge is the proof's challenge; a proof whose commitment differs from
\* the stored commitment of the session its challenge selects is answered
\* with AUTH_FAILURE, whatever its proofData and timestamp.
C1_AcceptOnlyMatching ==
    \A p \in TriedProofs :
        \A r \in Handle(ProofDatagram(p, ProofSource)) :
            /\ IsReply(r.out, TypeAuthSuccess) =>
                 \E k \in SessionsOf(gs, p) :
                    /\ k \in DOMAIN gs.droneVerifiers
                    /\ gs.droneVerifiers[k].publicCommitment = p.commitment
            /\ (\E k \in SessionsOf(gs, p) :
                    gs.droneVerifiers[k].publicCommitment # p.commitment)
                 => IsReply(r.out, TypeAuthFailure)

\* a proof has been accepted and one refused, and in this state a proof with
\* a session's challenge and another commitment is refused
C1_Witness ==
    /\ gs.numAuthSuccess >= 1
    /\ gs.numAuthFailures >= 1
    /\ \E p \in TriedProofs, a \in SourceAddresses :
          /\ \E k \in SessionsOf(gs, p) :
                gs.droneVerifiers[k].publicCommitment # p.commitment
          /\ Len(p.proofData) = DigestLen /\ p.timestamp = now
          /\ \A r \in Handle(ProofDatagram(p, a)) : IsReply(r.out, TypeAuthFailure)

---------------------------------------------------------------------------
(* C2 *)

UnauthorizedIds == {DroneName(6), DroneName(9), <<68>>, <<>>}

\* C2: an AUTH_REQUEST naming an identity that is not in authorizedDrones is
\* answered with AUTH_FAILURE and counted in numAuthFailures, and it creates
\* no verifier and no pending challenge, for any identity: no challenge is
\* generated at all.
C2_UnauthorizedRefused ==
    \A id \in UnauthorizedIds, c \in InputCommitments \cup {<<>>}, a \in SourceAddresses :
        LET r == handleAuthRequest(gs, AuthRequestMessage(id, c), a, DronePort, now, rand)
        IN  /\ Handle(AuthRequestDatagram(id, c, a)) = {r}
            /\ IsReply(r.out, TypeAuthFailure)
            /\ r.out[1].destAddr = a
            /\ r.gs.numAuthFailures = gs.numAuthFailures + 1
            /\ r.gs.droneVerifiers = gs.droneVerifiers
            /\ r.gs.pendingChallenges = gs.pendingChallenges
            /\ id \notin DOMAIN r.gs.droneVerifiers
            /\ id \notin DOMAIN r.gs.pendingChallenges
            /\ r.rand = rand

\* the only message handled so far is a request that was refused and counted
C2_Witness ==
    /\ gs.numAuthRequests = 1
    /\ gs.numAuthFailures = 1
    /\ gs.droneVerifiers = EmptyMap
    /\ gs.pendingChallenges = EmptyMap
    /\ hist.issued = {}

---------------------------------------------------------------------------
(* C4 *)

\* every datagram the claims about stored state are tried on
TriedRequests ==
    {AuthRequestDatagram(id, c, a) :
        id \in InputIds, c \in InputCommitments, a \in SourceAddresses}

TriedDatagrams ==
    TriedRequests \cup {ProofDatagram(p, ProofSource) : p \in TriedProofs} \cup EnvOthers

\* the proofs with a pending challenge and a stored commitment, of the same
\* identity or of two, with the clock's time
CrossedProofs ==
    {ZKProof(GoodProofData, gs.droneVerifiers[j].publicCommitment,
             gs.pendingChallenges[i], now) :
        i \in DOMAIN gs.pendingChallenges, j \in DOMAIN gs.droneVerifiers}

\* C4: once a commitment is stored for an identity, no datagram changes it
\* or removes the identity's verifier: a later AUTH_REQUEST for the identity
\* with another commitment leaves the first one in place, and so does every
\* PROOF, accepted or refused.
C4_CommitmentImmutable ==
    \A dg \in TriedRequests \cup {ProofDatagram(p, ProofSource) : p \in CrossedProofs}
               \cup EnvOthers :
      \A r \in Handle(dg) :
        \A k \in DOMAIN gs.droneVerifiers :
            /\ k \in DOMAIN r.gs.droneVerifiers
            /\ r.gs.droneVerifiers[k].publicCommitment =
                   gs.droneVerifiers[k].publicCommitment
            /\ r.gs.droneVerifiers[k].droneId = gs.droneVerifiers[k].droneId

\* an identity's last request came with another commitment than the stored one
C4_Witness ==
    \E k \in DOMAIN gs.droneVerifiers :
        /\ k \in DOMAIN gs.droneAddresses
        /\ gs.droneVerifiers[k].publicCommitment # CommitmentAt(gs.droneAddresses[k][1])
        /\ gs.numAuthRequests >= 2

---------------------------------------------------------------------------
(* C5 *)

\* C5: a pending challenge is removed only by the PROOF that is accepted
\* against it and replaced only by an AUTH_REQUEST for its identity; a PROOF
\* answered with AUTH_FAILURE leaves every pending challenge as it was, so
\* that the proof with that challenge, the stored commitment and a fresh
\* timestamp is accepted afterwards.
C5_ClearedOnlyOnSuccess ==
    \A dg \in TriedDatagrams : \A r \in Handle(dg) :
        /\ \A k \in DOMAIN gs.pendingChallenges :
              /\ k \notin DOMAIN r.gs.pendingChallenges =>
                    /\ IsReply(r.out, TypeAuthSuccess)
                    /\ r.gs.numAuthSuccess = gs.numAuthSuccess + 1
                    /\ TypeOf(dg) = TypeProof
              /\ (k \in DOMAIN r.gs.pendingChallenges
                    /\ r.gs.pendingChallenges[k] # gs.pendingChallenges[k]) =>
                    /\ IsReply(r.out, TypeChallenge)
                    /\ TypeOf(dg) = TypeAuthRequest
        /\ (TypeOf(dg) = TypeProof /\ IsReply(r.out, TypeAuthFailure)) =>
              /\ r.gs.pendingChallenges = gs.pendingChallenges
              /\ r.gs.droneVerifiers = gs.droneVerifiers
              /\ r.gs # gs =>
                    \A k \in DOMAIN r.gs.pendingChallenges :
                        \A r2 \in handleMessageWhenUp(r.gs,
                                     ProofMessage(PassingProof(r.gs, k, now)),
                                     dg.srcAddr, dg.srcPort, now, r.rand, {}) :
                            IsReply(r2.out, TypeAuthSuccess)

\* one request, one verification that failed and then the one that succeeded
C5_Witness ==
    /\ gs.numAuthRequests = 1
    /\ gs.numAuthFailures = 1
    /\ gs.numAuthSuccess = 1
    /\ hist.accepted = hist.issued
    /\ gs.pendingChallenges = EmptyMap

---------------------------------------------------------------------------
(* C6 *)

\* C6: a challenge that a PROOF was accepted against is pending no more, and
\* every later PROOF carrying it, whatever requests were handled in between,
\* is answered with AUTH_FAILURE and leaves numAuthSuccess as it is: every
\* success counted has used up a challenge of its own.
C6_SingleUse ==
    /\ hist.accepted \cap Values(gs.pendingChallenges) = {}
    /\ gs.numAuthSuccess = Cardinality(hist.accepted)
    /\ \A p \in TriedProofs :
          p.challenge \in hist.accepted =>
              \A r \in Handle(ProofDatagram(p, ProofSource)) :
                  /\ IsReply(r.out, TypeAuthFailure)
                  /\ r.gs.numAuthSuccess = gs.numAuthSuccess

\* a challenge was accepted and its identity has asked for a new one since
C6_Witness ==
    \E k \in DOMAIN gs.pendingChallenges :
        /\ gs.droneVerifiers[k].lastChallenge = gs.pendingChallenges[k]
        /\ hist.accepted # {}
        /\ Cardinality(hist.issued) = 2
        /\ Cardinality(DOMAIN gs.droneVerifiers) = 1

---------------------------------------------------------------------------
(* C7 *)

\* the challenges that were issued and are neither pending nor accepted
Replaced == hist.issued \ (hist.accepted \cup Values(gs.pendingChallenges))

\* C7: an AUTH_REQUEST for an identity with a pending challenge replaces it
\* by a new one; after that a PROOF carrying the first challenge is answered
\* with AUTH_FAILURE as one with an unknown challenge (no counter moves),
\* and the proof carrying the second one is accepted. No replaced challenge
\* is ever accepted.
C7_RequestReplacesChallenge ==
    /\ \A k \in DOMAIN gs.pendingChallenges, c \in InputCommitments, a \in SourceAddresses :
          LET first == gs.pendingChallenges[k]
              r == handleAuthRequest(gs, AuthRequestMessage(k, c), a, DronePort, now, rand)
              second == r.gs.pendingChallenges[k]
              stale == ZKProof(GoodProofData, r.gs.droneVerifiers[k].publicCommitment,
                               first, now)
          IN  /\ IsReply(r.out, TypeChallenge)
              /\ ChallengeOf(r.out[1]) = second
              /\ second # first
              /\ first \notin Values(r.gs.pendingChallenges)
              /\ \A r1 \in handleMessageWhenUp(r.gs, ProofMessage(stale), a, DronePort,
                                               now, r.rand, {}) :
                    /\ IsReply(r1.out, TypeAuthFailure)
                    /\ r1.gs = r.gs
              /\ \A r2 \in handleMessageWhenUp(r.gs, ProofMessage(PassingProof(r.gs, k, now)),
                                               a, DronePort, now, r.rand, {}) :
                    /\ IsReply(r2.out, TypeAuthSuccess)
                    /\ r2.gs.numAuthSuccess = gs.numAuthSuccess + 1
    /\ \A p \in TriedProofs :
          p.challenge \in Replaced =>
              \A r \in Handle(ProofDatagram(p, ProofSource)) :
                  IsReply(r.out, TypeAuthFailure) /\ r.gs = gs

\* the first of an identity's two challenges was replaced and the second accepted
C7_Witness ==
    /\ Cardinality(DOMAIN gs.droneVerifiers) = 1
    /\ Cardinality(hist.issued) = 2
    /\ Cardinality(hist.accepted) = 1
    /\ Cardinality(Replaced) = 1
    /\ gs.numAuthSuccess = 1
    /\ gs.pendingChallenges = EmptyMap
    /\ \A k \in DOMAIN gs.droneVerifiers :
          gs.droneVerifiers[k].lastChallenge \in hist.accepted

---------------------------------------------------------------------------
(* C3 *)

\* the distance between the clock and a timestamp read as a signed value
ClockDistance(nowv, timestamp) ==
    IF nowv >= ToSigned(timestamp) THEN nowv - ToSigned(timestamp)
    ELSE ToSigned(timestamp) - nowv

Authorized == {d \in Drones : app[d].droneId \in authorizedDrones}

FromDrone(pkt, d) ==
    pkt.srcAddr = app[d].address /\ pkt.srcPort = DronePort /\ ToGroundStation(pkt)

\* the drone has sent one request, and no timeout and no answer has come
FirstHandshake(d) ==
    /\ app[d].numAuthRequests = 1
    /\ app[d].numAuthFailures = 0
    /\ app[d].numAuthSuccess = 0

\* delivered now, the drone's AUTH_REQUEST is answered with a CHALLENGE to the
\* drone, the CHALLENGE makes the drone schedule a proof for it, the proof
\* sent carries that challenge, the drone's commitment and the clock's time,
\* and AUTH_SUCCESS makes the drone Authenticated
HandshakeSteps(d) ==
    /\ \A pkt \in net :
          (FromDrone(pkt, d) /\ TypeOf(pkt) = TypeAuthRequest) =>
              \A r \in Handle(DatagramOf(pkt)) :
                  /\ IsReply(r.out, TypeChallenge)
                  /\ r.out[1].destAddr = app[d].address
                  /\ r.out[1].destPort = DronePort
                  /\ r.gs.pendingChallenges[app[d].droneId] = ChallengeOf(r.out[1])
    /\ \A pkt \in net :
          (ToDrone(pkt, d) /\ TypeOf(pkt) = TypeChallenge) =>
              LET r == handleIncomingMessage(app[d], pkt.data)
              IN  /\ r.app.currentChallenge = ChallengeOf(pkt)
                  /\ r.app.proofMsgs = app[d].proofMsgs + 1
    /\ app[d].proofMsgs > 0 =>
          LET r == handleSelfMessage(app[d], MSG_SEND_PROOF, now)
              p == deserialize(Tail(r.out[1].data))
          IN  /\ Len(r.out) = 1
              /\ r.out[1].data[1] = TypeProof
              /\ DeserializeInBounds(Tail(r.out[1].data))
              /\ p.challenge = app[d].currentChallenge
              /\ p.commitment = getCommitment(app[d].zkpModule)
              /\ p.timestamp = now
              /\ Len(p.proofData) = DigestLen
    /\ \A pkt \in net :
          (ToDrone(pkt, d) /\ TypeOf(pkt) = TypeAuthSuccess) =>
              LET r == handleIncomingMessage(app[d], pkt.data)
              IN  /\ r.app.text = "Authenticated"
                  /\ r.app.numAuthSuccess = app[d].numAuthSuccess + 1
                  /\ r.app.timeoutMsg = "null"

\* delivered now, the PROOF is answered with AUTH_SUCCESS to the drone and
\* counted once
ProofAccepted(d, pkt) ==
    \A r \in Handle(DatagramOf(pkt)) :
        /\ IsReply(r.out, TypeAuthSuccess)
        /\ r.out[1].destAddr = app[d].address
        /\ r.out[1].destPort = DronePort
        /\ r.gs.numAuthSuccess = gs.numAuthSuccess + 1

\* the ground station holds the drone's own commitment for its identity, the
\* challenge of the proof is still the identity's pending one, and the
\* proof's timestamp is within the freshness window of the clock
FirstAndFresh(d, pkt) ==
    LET p == deserialize(Tail(pkt.data))
        id == app[d].droneId
    IN  /\ id \in DOMAIN gs.droneVerifiers
        /\ gs.droneVerifiers[id].publicCommitment = getCommitment(app[d].zkpModule)
        /\ id \in DOMAIN gs.pendingChallenges
        /\ gs.pendingChallenges[id] = p.challenge
        /\ ClockDistance(now, p.timestamp) <= FreshnessWindow

---------------------------------------------------------------------------
(* C8 *)

\* the address a commitment is sent from
CommitmentFrom(a) == IF a = ForeignAddress THEN ForeignCommitment ELSE CommitmentAt(a)

\* an AUTH_REQUEST for an identity is answered to its sender only, with the
\* challenge now pending for that identity, and changes no other identity's
\* verifier or pending challenge
RequestIsolated ==
    \A id \in InputIds \cap authorizedDrones, a \in SourceAddresses \cup {ForeignAddress} :
        \A r \in Handle(AuthRequestDatagram(id, CommitmentFrom(a), a)) :
            /\ r.out = <<ChallengePacket(r.gs.pendingChallenges[id], a, DronePort)>>
            /\ r.gs.pendingChallenges[id] \notin Values(gs.pendingChallenges)
            /\ DOMAIN r.gs.droneVerifiers = DOMAIN gs.droneVerifiers \cup {id}
            /\ DOMAIN r.gs.pendingChallenges = DOMAIN gs.pendingChallenges \cup {id}
            /\ \A j \in DOMAIN gs.droneVerifiers \ {id} :
                  r.gs.droneVerifiers[j] = gs.droneVerifiers[j]
            /\ \A j \in DOMAIN gs.pendingChallenges \ {id} :
                  r.gs.pendingChallenges[j] = gs.pendingChallenges[j]

\* a PROOF is verified against the commitment of the identity whose pending
\* challenge it carries and no other, is answered to its sender, and changes
\* no verifier and no other identity's pending challenge
ProofIsolated ==
    \A p \in CrossedProofs, a \in SourceAddresses :
        \A r \in Handle(ProofDatagram(p, a)) :
            /\ Len(r.out) = 1 /\ r.out[1].destAddr = a /\ r.out[1].destPort = DronePort
            /\ r.gs.droneVerifiers = gs.droneVerifiers
            /\ Cardinality(SessionsOf(gs, p)) = 1
            /\ \A j \in DOMAIN gs.pendingChallenges \ SessionsOf(gs, p) :
                  /\ j \in DOMAIN r.gs.pendingChallenges
                  /\ r.gs.pendingChallenges[j] = gs.pendingChallenges[j]
            /\ \A i \in SessionsOf(gs, p) :
                  IsReply(r.out, TypeAuthSuccess) <=>
                      p.commitment = gs.droneVerifiers[i].publicCommitment

\* every CHALLENGE on the network goes to the address that asked for it, and
\* the challenge a drone holds was made for its own identity and request
ChallengeToRequester ==
    /\ \A pkt \in net :
          TypeOf(pkt) = TypeChallenge =>
              \E x \in hist.issuedFor :
                  x.challenge = ChallengeOf(pkt) /\ x.requester = pkt.destAddr
    /\ \A x, y \in hist.issuedFor : x.challenge = y.challenge => x = y
    /\ \A d \in Drones :
          app[d].currentChallenge # <<>> =>
              \E x \in hist.issuedFor :
                  /\ x.challenge = app[d].currentChallenge
                  /\ x.droneId = app[d].droneId
                  /\ x.requester = app[d].address

\* a step of the ground station changes no drone, and a step of a drone
\* changes neither the ground station nor another drone
OneAtATime ==
    /\ (gs' # gs) => (app' = app)
    /\ \A d \in Drones :
          (app'[d] # app[d]) =>
              /\ gs' = gs
              /\ \A e \in Drones \ {d} : app'[e] = app[e]

\* C8: with the drones' handshakes interleaved in every way, a CHALLENGE made
\* for an identity is sent to the sender of that identity's request only, a
\* PROOF is verified against the commitment of the identity whose pending
\* challenge it carries, and handling a message for one identity changes no
\* commitment or pending challenge of another identity and no other drone.
C8_Isolation ==
    /\ [](RequestIsolated /\ ProofIsolated /\ ChallengeToRequester)
    /\ [][OneAtATime]_vars

\* two drones hold a challenge each at the same time, each its own
C8_Witness ==
    \E d, e \in Drones :
        /\ d # e
        /\ app[d].droneId \in DOMAIN gs.pendingChallenges
        /\ app[e].droneId \in DOMAIN gs.pendingChallenges
        /\ app[d].currentChallenge = gs.pendingChallenges[app[d].droneId]
        /\ app[e].currentChallenge = gs.pendingChallenges[app[e].droneId]
        /\ app[d].currentChallenge # app[e].currentChallenge

---------------------------------------------------------------------------
(* C9 *)

\* C9: a PROOF whose timestamp, read as a signed value of the timestamp's
\* width, is further than the freshness window from the verifier's clock is
\* answered with AUTH_FAILURE, also when everything else in it is right.
C9_StaleRejected ==
    \A k \in DOMAIN gs.pendingChallenges, d \in InputDistances, a \in SourceAddresses :
        LET p == PassingProof(gs, k, TimestampAt(now, d))
        IN  ClockDistance(now, p.timestamp) > FreshnessWindow =>
                \A r \in Handle(ProofDatagram(p, a)) : IsReply(r.out, TypeAuthFailure)

---------------------------------------------------------------------------
(* C10 *)

\* C10: a drone that has an authorized identity and another password than the
\* one of the authorized drones is never told AUTH_SUCCESS: it counts no
\* success and never shows Authenticated.
C10_WrongPasswordRefused ==
    \A d \in Authorized :
        app[d].password # SecurePassword =>
            /\ app[d].numAuthSuccess = 0
            /\ app[d].text # "Authenticated"
            /\ \A pkt \in net : ToDrone(pkt, d) => TypeOf(pkt) # TypeAuthSuccess

---------------------------------------------------------------------------
(* C11 *)

\* the commitment an AUTH_REQUEST carries
RequestedCommitment(data) ==
    LET offset == 1 + LenBytes + ReadUInt(data, 1, LenBytes)
    IN  Slice(data, offset + LenBytes, offset + LenBytes + ReadUInt(data, offset, LenBytes))

\* the packets on the network that drone d sent
SentByDrone(d) == {pkt \in net : pkt.srcAddr = app[d].address /\ pkt.srcPort = DronePort}

\* the fields of a message, as the ground station reads them
FieldsOf(data) ==
    IF data = <<>> THEN {}
    ELSE IF data[1] = TypeAuthRequest
    THEN {RequestedId(data), RequestedCommitment(data)}
    ELSE IF data[1] = TypeProof /\ DeserializeInBounds(Tail(data))
    THEN LET p == deserialize(Tail(data))
         IN  {p.proofData, p.commitment, p.challenge, ToBytes(p.timestamp, TsBytes)}
    ELSE {data}

\* C11: every message a drone sends is an AUTH_REQUEST made of its identity
\* and its commitment Hash(secret, nonce), or a PROOF made of
\* Hash(secret, challenge, nonce), the commitment, a challenge the ground
\* station issued and a timestamp; no field of it is the drone's secret or
\* its password.
C11_SecretNeverSent ==
    \A d \in Drones : \A pkt \in SentByDrone(d) :
        LET z == app[d].zkpModule
            commitment == sha256Hash(combineVectors(<<z.privateSecret, z.sessionNonce>>))
        IN  /\ z.privateSecret \notin FieldsOf(pkt.data)
            /\ app[d].password \notin FieldsOf(pkt.data)
            /\ TypeOf(pkt) \in {TypeAuthRequest, TypeProof}
            /\ TypeOf(pkt) = TypeAuthRequest =>
                  pkt.data = AuthRequestMessage(app[d].droneId, commitment)
            /\ TypeOf(pkt) = TypeProof =>
                  /\ DeserializeInBounds(Tail(pkt.data))
                  /\ LET p == deserialize(Tail(pkt.data))
                     IN  /\ p.challenge \in hist.issued
                         /\ p.commitment = commitment
                         /\ p.proofData =
                               sha256Hash(combineVectors(
                                   <<z.privateSecret, p.challenge, z.sessionNonce>>))
                         /\ pkt.data = ProofMessage(p)

\* a PROOF and an AUTH_REQUEST of drones are on the network
C11_Witness ==
    /\ \E d \in Drones : \E pkt \in SentByDrone(d) : TypeOf(pkt) = TypeProof
    /\ \E d \in Drones : \E pkt \in SentByDrone(d) : TypeOf(pkt) = TypeAuthRequest

---------------------------------------------------------------------------
(* C12 *)

\* an authTimeout message of drone d arrives in this step
TimeoutFires(d) == hist'.drone[d].fired # hist.drone[d].fired

\* selfMsg is scheduled to arrive retryInterval after the timeout
RetryPending(a) == a.selfMsg = "scheduled" /\ a.selfMsgAfter = "retryInterval"

\* the AUTH_REQUEST of drone d, on the network
OwnAuthRequest(d) ==
    InFlight(Packet(AuthRequestMessage(app[d].droneId, getCommitment(app[d].zkpModule)),
                    GroundStationAddress, GroundStationPort),
             app[d].address, DronePort)

\* a timeout counts a failure, turns the drone red and schedules selfMsg
\* retryInterval later; the schedule stays as it is until selfMsg arrives,
\* which sends an AUTH_REQUEST and arms the timeout made for it, or until
\* AUTH_SUCCESS cancels it
TimeoutThenRetry(d) ==
    /\ TimeoutFires(d) =>
          /\ app[d].numAuthRequests > 0
          /\ app'[d].numAuthFailures = app[d].numAuthFailures + 1
          /\ app'[d].colour = "red"
          /\ ~app'[d].failed
          /\ RetryPending(app'[d])
          /\ app'[d].numAuthRequests = app[d].numAuthRequests
          /\ app'[d].timeoutMsg = "null"
          /\ app'[d].timeoutEvents = {}
    /\ RetryPending(app[d]) =>
          \/ /\ RetryPending(app'[d])
             /\ app'[d].numAuthRequests = app[d].numAuthRequests
             /\ app'[d].numAuthSuccess = app[d].numAuthSuccess
          \/ /\ app'[d].numAuthRequests = app[d].numAuthRequests + 1
             /\ app'[d].selfMsg = "idle"
             /\ OwnAuthRequest(d) \in net'
             /\ app'[d].timeoutMsg = "scheduled"
             /\ app'[d].timeoutId = app'[d].numAuthRequests
             /\ app'[d].timeoutEvents = {app'[d].timeoutId}
          \/ /\ app'[d].numAuthSuccess = app[d].numAuthSuccess + 1
             /\ app'[d].numAuthRequests = app[d].numAuthRequests
             /\ app'[d].selfMsg = "idle"

---------------------------------------------------------------------------
(* C13 *)

\* the drone waits for a CHALLENGE or for a result
Waiting(d) == hist.drone[d].awaiting \in {"challenge", "proving", "result"}

\* C13: whenever a drone waits for a CHALLENGE or for a result (it has sent an
\* AUTH_REQUEST, is preparing its proof, or has sent a PROOF, and no result
\* and no timeout has come since), its authentication timeout is scheduled.
C13_WaitsAreTimed ==
    \A d \in Drones :
        Waiting(d) =>
            /\ app[d].timeoutMsg = "scheduled"
            /\ app[d].timeoutId \in app[d].timeoutEvents

---------------------------------------------------------------------------
(* C14 *)

\* every field of the proof has a size its length field can hold
FitsLengthFields(p) ==
    /\ Len(p.proofData) <= MaxFieldLen
    /\ Len(p.commitment) <= MaxFieldLen
    /\ Len(p.challenge) <= MaxFieldLen

\* deserialize returned the proof that was serialized
RoundTrip == app.result = [kind |-> "proof", proof |-> app.proof]

\* C14 as stated: for every proof, whatever the sizes of its fields,
\* deserialize(serialize(p)) is p in all four fields.
C14_RoundTrip == app.pc = "deserialized" => RoundTrip

\* C14, amended: for every proof whose proofData, commitment and challenge
\* each have a size the length field holds (less than 2^32 bytes),
\* deserialize(serialize(p)) reads within the buffer and is p in all four
\* fields.
C14_RoundTripWithinLengthField ==
    /\ (app.pc # "proof" /\ FitsLengthFields(app.proof)) =>
          /\ DeserializeInBounds(app.data)
          /\ Len(app.data) = 3 * LenBytes + Len(app.proof.proofData)
                             + Len(app.proof.commitment) + Len(app.proof.challenge)
                             + TsBytes
    /\ (app.pc = "deserialized" /\ FitsLengthFields(app.proof)) => RoundTrip

\* a proof with a field of the largest size and the largest timestamp was
\* read back
C14_Witness ==
    /\ app.pc = "deserialized"
    /\ Len(app.proof.challenge) = MaxFieldLen
    /\ app.proof.timestamp = TsMod - 1
    /\ app.proof.commitment # <<>>
    /\ RoundTrip

---------------------------------------------------------------------------
(* C15 *)

\* PROOF payloads that end before their fields do: a payload of one byte, a
\* length with nothing after it, a proofData cut short, and every proper
\* prefix of the proof that would be accepted
MalformedProofs ==
    {<<TypeProof, 0>>,
     <<TypeProof>> \o ToBytes(DigestLen, LenBytes),
     <<TypeProof>> \o ToBytes(DigestLen, LenBytes) \o ShortProofData}
    \cup UNION {{data \in Prefixes(ProofMessage(PassingProof(gs, k, now))) : Len(data) >= 2} :
                   k \in DOMAIN gs.pendingChallenges}

\* C15: a PROOF whose payload is shorter than its fixed fields or whose
\* length fields reach past its end is never read past the end of the
\* buffer: the only outcome is AUTH_FAILURE to the sender, with the verifiers,
\* the pending challenges and the counters of the ground station unchanged.
C15_MalformedProofRefused ==
    \A data \in MalformedProofs :
        /\ ~DeserializeInBounds(Tail(data))
        /\ \A r \in Handle(Datagram(data, ProofSource, DronePort)) :
              /\ r.out = <<AuthFailurePacket(ProofSource, DronePort)>>
              /\ r.gs = gs

---------------------------------------------------------------------------
(* C16 *)

\* the drone has handled AUTH_SUCCESS
Authenticated(a) == a.numAuthSuccess > 0

\* C16: once a drone has handled AUTH_SUCCESS it stays Authenticated: no
\* later step counts a failure for it or changes what it shows from green
\* and "Authenticated".
C16_AuthenticatedIsTerminal ==
    [][\A d \in Drones :
          Authenticated(app[d]) =>
              /\ app'[d].numAuthFailures = app[d].numAuthFailures
              /\ app'[d].colour = "green"
              /\ app'[d].text = "Authenticated"]_vars

---------------------------------------------------------------------------
(* C17 *)

\* the PROOFs of drone d on the network
ProofsOf(d) == {pkt \in SentByDrone(d) : TypeOf(pkt) = TypeProof}

\* C17: a drone takes a CHALLENGE (records it and schedules a proof) only
\* while it waits for one, and once it is Authenticated no proof is
\* scheduled, none gets scheduled and it sends no PROOF.
C17_ProofOnlyInProgress ==
    /\ [](\A d \in Drones : Authenticated(app[d]) => app[d].proofMsgs = 0)
    /\ [][\A d \in Drones :
             /\ app'[d].proofMsgs > app[d].proofMsgs =>
                   hist.drone[d].awaiting = "challenge"
             /\ Authenticated(app[d]) =>
                   /\ app'[d].proofMsgs = 0
                   /\ ProofsOf(d)' \subseteq ProofsOf(d)]_vars

---------------------------------------------------------------------------
(* C18 *)

\* the drone as selfMsg's arrival would find it, were it to arrive now
RequestSentNow(a) ==
    handleSelfMessage([a EXCEPT !.selfMsg = "idle", !.selfMsgAfter = ""],
                      MSG_SEND_AUTH_REQUEST, 0).app

\* at most one authTimeout message is scheduled, it is the one timeoutMsg
\* points to, and it is the one made for the last request
OneTimeout(a) ==
    /\ Cardinality(a.timeoutEvents) <= 1
    /\ a.timeoutEvents \subseteq {a.timeoutId}
    /\ (a.timeoutMsg = "scheduled") = (a.timeoutId \in a.timeoutEvents)
    /\ (a.timeoutMsg = "null") = (a.timeoutId = 0)
    /\ \A id \in a.timeoutEvents : id = a.numAuthRequests

\* C18: a drone never has more than one authTimeout message scheduled; in
\* whatever state an AUTH_REQUEST is sent, the timeout that existed is
\* cancelled and deleted and the only one scheduled afterwards is the new
\* one; and the message whose arrival runs the timeout handler is the one
\* made for the last AUTH_REQUEST.
C18_OneTimeoutTimer ==
    /\ [](\A d \in Drones :
             /\ OneTimeout(app[d])
             /\ OneTimeout(RequestSentNow(app[d]))
             /\ RequestSentNow(app[d]).timeoutEvents = {app[d].numAuthRequests + 1}
             /\ RequestSentNow(app[d]).timeoutMsg = "scheduled")
    /\ [][\A d \in Drones :
             /\ TimeoutFires(d) =>
                   /\ hist'.drone[d].fired = hist.drone[d].fired \cup {app[d].numAuthRequests}
                   /\ app[d].timeoutId = app[d].numAuthRequests
                   /\ ~app'[d].failed
             /\ app'[d].numAuthRequests # app[d].numAuthRequests =>
                   /\ app'[d].timeoutEvents = {app'[d].numAuthRequests}
                   /\ app'[d].timeoutMsg = "scheduled"]_vars

\* a drone's second request has armed the second timeout, the first having
\* arrived, and the drone holds a challenge
C18_Witness ==
    \E d \in Drones :
        /\ app[d].numAuthRequests = 2
        /\ hist.drone[d].fired = {1}
        /\ app[d].timeoutEvents = {2}
        /\ app[d].currentChallenge # <<>>

---------------------------------------------------------------------------
(* C19 *)

\* the drone after an AUTH_FAILURE, were one delivered now
FailureHandledNow(a) == handleIncomingMessage(a, <<TypeAuthFailure>>).app

\* C19: handling AUTH_FAILURE, in whatever state, leaves no timeout scheduled
\* and schedules nothing; every AUTH_REQUEST of a drone after its first
\* follows the arrival of the timeout of the request before it, and the
\* requests sent are never more than one plus the timeouts that have fired.
C19_RetryOnlyFromTimeout ==
    \A d \in Drones :
        /\ FailureHandledNow(app[d]).timeoutEvents = {}
        /\ FailureHandledNow(app[d]).timeoutMsg = "null"
        /\ FailureHandledNow(app[d]).selfMsg = app[d].selfMsg
        /\ FailureHandledNow(app[d]).selfMsgAfter = app[d].selfMsgAfter
        /\ FailureHandledNow(app[d]).proofMsgs = app[d].proofMsgs
        /\ FailureHandledNow(app[d]).numAuthRequests = app[d].numAuthRequests
        /\ \A n \in 2..app[d].numAuthRequests : (n - 1) \in hist.drone[d].fired
        /\ app[d].numAuthRequests <= 1 + Cardinality(hist.drone[d].fired)
        /\ app[d].selfMsgAfter = "retryInterval" =>
              app[d].numAuthRequests \in hist.drone[d].fired

\* a drone that was told AUTH_FAILURE before any timeout has sent one request
\* and has nothing scheduled
C19_Witness ==
    \E d \in Drones :
        /\ app[d].text = "Auth Failed"
        /\ app[d].numAuthFailures = 1
        /\ hist.drone[d].fired = {}
        /\ app[d].numAuthRequests = 1
        /\ app[d].selfMsg = "idle"
        /\ app[d].timeoutEvents = {}
        /\ app[d].proofMsgs = 0
        /\ net = {}

---------------------------------------------------------------------------
(* C20 *)

\* the drone after an AUTH_SUCCESS, were one delivered now
SuccessHandledNow(a) == handleIncomingMessage(a, <<TypeAuthSuccess>>).app

\* C20: handling AUTH_SUCCESS, in whatever state and also while a retry is
\* scheduled after a timeout, leaves neither an authTimeout message nor
\* selfMsg scheduled; a drone that has handled AUTH_SUCCESS has neither
\* scheduled ever after and sends no further AUTH_REQUEST.
C20_SuccessStopsTimers ==
    /\ [](\A d \in Drones :
             /\ SuccessHandledNow(app[d]).timeoutEvents = {}
             /\ SuccessHandledNow(app[d]).timeoutMsg = "null"
             /\ SuccessHandledNow(app[d]).selfMsg = "idle"
             /\ SuccessHandledNow(app[d]).selfMsgAfter = ""
             /\ Authenticated(app[d]) =>
                   /\ app[d].timeoutEvents = {}
                   /\ app[d].timeoutMsg = "null"
                   /\ app[d].selfMsg = "idle")
    /\ [][\A d \in Drones :
             Authenticated(app[d]) =>
                 /\ app'[d].numAuthRequests = app[d].numAuthRequests
                 /\ ~TimeoutFires(d)
                 /\ (OwnAuthRequest(d) \in net') => (OwnAuthRequest(d) \in net)]_vars

\* AUTH_SUCCESS came while the retry after the only request's timeout was
\* scheduled: the retry was cancelled and no second request was sent
C20_Witness ==
    \E d \in Drones :
        /\ Authenticated(app[d])
        /\ hist.drone[d].fired = {1}
        /\ app[d].numAuthRequests = 1
        /\ app[d].selfMsg = "idle"
        /\ net = {}

---------------------------------------------------------------------------
(* C21 *)

\* proofData of the right size that no prover computed
OtherProofData == [i \in 1..DigestLen |-> 255 - i]

\* byte strings of the same size as pd, pd among them
SameSize(pd) ==
    IF Len(pd) = DigestLen THEN {GoodProofData, OtherProofData}
    ELSE {ShortProofData, [i \in 1..Len(pd) |-> 9]}

\* the challenges put in a proof for the verifier z in place of one never
\* issued: the one it issued last, and none
TriedChallenges(z) == {z.lastChallenge, <<>>}

\* proofs of both sizes with every commitment and every distance from the clock
VerdictProofs ==
    {ZKProof(pd, c, UnknownChallenge, TimestampAt(now, d)) :
        pd \in {GoodProofData, ShortProofData}, c \in InputCommitments,
        d \in InputDistances}

---------------------------------------------------------------------------
(* C22 *)

\* the commitments a well-formed request carries: each drone's, and none
RequestCommitments == InputCommitments \cup {<<>>}

\* what handleAuthRequest leaves of a well-formed request for the authorized
\* identity id with commitment c from address a
ChallengeIssued(id, c, a) ==
    LET r == handleAuthRequest(gs, AuthRequestMessage(id, c), a, DronePort, now, rand)
        challenge == ChallengeString(now, rand + 1)
        created == initializeVerifier(setup(NewZKPModule), c, id)
        kept == IF id \in DOMAIN gs.droneVerifiers THEN gs.droneVerifiers[id] ELSE created
    IN  /\ r.rand = rand + 1
        /\ challenge \notin hist.issued
        /\ r.gs.droneVerifiers[id] = [kept EXCEPT !.lastChallenge = challenge]
        /\ r.gs.pendingChallenges[id] = challenge
        /\ r.out = <<Packet(<<TypeChallenge>> \o ToBytes(Len(challenge), LenBytes) \o challenge,
                            a, DronePort)>>
        /\ r.gs.droneAddresses[id] = <<a, DronePort>>
        /\ r.gs = [gs EXCEPT !.numAuthRequests = @ + 1,
                             !.droneVerifiers = r.gs.droneVerifiers,
                             !.pendingChallenges = r.gs.pendingChallenges,
                             !.droneAddresses = r.gs.droneAddresses]
        /\ \A j \in DOMAIN gs.droneVerifiers \ {id} :
              j \in DOMAIN r.gs.droneVerifiers
              /\ r.gs.droneVerifiers[j] = gs.droneVerifiers[j]
        /\ \A j \in DOMAIN gs.pendingChallenges \ {id} :
              j \in DOMAIN r.gs.pendingChallenges
              /\ r.gs.pendingChallenges[j] = gs.pendingChallenges[j]
        /\ DOMAIN r.gs.droneVerifiers \subseteq DOMAIN gs.droneVerifiers \cup {id}
        /\ DOMAIN r.gs.pendingChallenges \subseteq DOMAIN gs.pendingChallenges \cup {id}
        /\ r.gs.numAuthSuccess = gs.numAuthSuccess
        /\ r.gs.numAuthFailures = gs.numAuthFailures

\* C22: in every reachable state of the ground station, a well-formed
\* AUTH_REQUEST for an authorized identity creates the identity's verifier
\* only if there is none (an existing one keeps its commitment), generates
\* one challenge never issued before, makes it the identity's pending
\* challenge, and sends one CHALLENGE with it to the source of the request;
\* the verifiers and pending challenges of the other identities and the
\* success and failure counters stay as they were.
C22_RequestFrame ==
    \A id \in InputIds \cap authorizedDrones, c \in RequestCommitments, a \in SourceAddresses :
        ChallengeIssued(id, c, a)

\* one identity has a verifier and a pending challenge, asked for from one
\* address, and the other has a verifier whose challenge was used up
C22_Witness ==
    /\ DOMAIN gs.droneVerifiers = {DroneName(1), DroneName(2)}
    /\ \E k \in DOMAIN gs.droneVerifiers :
          /\ DOMAIN gs.pendingChallenges = {k}
          /\ gs.droneAddresses[k][1] # ProofSource
    /\ gs.numAuthSuccess = 1

---------------------------------------------------------------------------
(* C23 *)

\* the challenges that are pending for no identity: the ones issued and no
\* longer pending (accepted or replaced), one never issued, and none
NotPending == ((hist.issued \cup {UnknownChallenge, <<>>}) \ Values(gs.pendingChallenges))

\* well-formed proofs carrying them: ones that pass every check of
\* verifyProof against the first drone's commitment, and one with a short
\* proofData, no commitment and a stale timestamp
UnmatchedProofs ==
    {ZKProof(GoodProofData, CommitmentAt(ProofSource), ch, now) : ch \in NotPending}
    \cup {ZKProof(ShortProofData, <<>>, UnknownChallenge,
                  TimestampAt(now, -(FreshnessWindow + 1)))}

\* C23: in every reachable state of the ground station, a well-formed PROOF
\* whose challenge is no identity's pending challenge is answered with one
\* AUTH_FAILURE to its source, and the state of the ground station after it
\* is the state before it: verifiers, pending challenges, addresses and the
\* three counters.
C23_UnknownChallengeFrame ==
    \A p \in UnmatchedProofs, a \in SourceAddresses :
        \A r \in Handle(ProofDatagram(p, a)) :
            /\ r.out = <<AuthFailurePacket(a, DronePort)>>
            /\ r.gs = gs
            /\ r.rand = rand

\* one challenge was accepted and another is pending: a proof with the first
\* is a proof with an unknown challenge, and no failure was counted so far
C23_Witness ==
    /\ hist.accepted # {}
    /\ hist.accepted \cap Values(gs.pendingChallenges) = {}
    /\ gs.pendingChallenges # EmptyMap
    /\ gs.numAuthFailures = 0

---------------------------------------------------------------------------
(* C24 *)

\* the datagrams tried: requests whole and cut short, proofs whole and cut
\* short, and the ones that are neither
InboundTried ==
    EnvAuthRequests
    \cup {ProofDatagram(p, a) : p \in TriedProofs, a \in SourceAddresses}
    \cup {Datagram(data, a, DronePort) : data \in MalformedProofs \cup {<<TypeProof>>},
                                         a \in SourceAddresses}
    \cup EnvOthers

\* one packet, of one of the two types, to the source of dg
OneReplyTo(out, dg, types) ==
    /\ Len(out) = 1
    /\ out[1].data[1] \in types
    /\ out[1].destAddr = dg.srcAddr
    /\ out[1].destPort = dg.srcPort

\* what the handling r of the datagram dg must have done
RepliedOnce(dg, r) ==
    IF TypeOf(dg) = TypeAuthRequest
    THEN OneReplyTo(r.out, dg, {TypeChallenge, TypeAuthFailure})
    ELSE IF TypeOf(dg) = TypeProof
    THEN OneReplyTo(r.out, dg, {TypeAuthSuccess, TypeAuthFailure})
    ELSE r.out = <<>> /\ r.gs = gs /\ r.rand = rand

\* C24: in every reachable state the ground station answers every datagram
\* of type 0x01 with one CHALLENGE or AUTH_FAILURE and every datagram of type
\* 0x03 with one AUTH_SUCCESS or AUTH_FAILURE, well-formed or not, sent to the
\* datagram's source address and port; for the empty datagram and every
\* other type it sends nothing and its state stays as it was.
C24_OneReplyPerRequest ==
    \A dg \in InboundTried : \A r \in Handle(dg) : RepliedOnce(dg, r)

---------------------------------------------------------------------------
(* C25 *)

\* AUTH_REQUEST buffers that end before their fields do: the type byte
\* alone and with one more byte, an identity length with no identity, and
\* every proper prefix of the request of an authorized and of an
\* unauthorized identity (each followed by a commitment cut short among them)
MalformedRequests ==
    {<<TypeAuthRequest>>, <<TypeAuthRequest, 2>>, <<TypeAuthRequest, 9, 68, 49>>,
     <<TypeAuthRequest>> \o ToBytes(Pow256(LenBytes) - 1, LenBytes) \o <<68, 49>>}
    \cup UNION {Prefixes(AuthRequestMessage(id, CommitmentAt(ProofSource))) :
                   id \in {DroneName(1), DroneName(6)}}

\* the buffer's identity field is whole
IdentityReadable(data) ==
    /\ Len(data) >= MinAuthRequestSize
    /\ Len(data) >= 1 + LenBytes + ReadUInt(data, 1, LenBytes) + LenBytes

\* the buffer's commitment field is whole
CommitmentReadable(data) ==
    /\ IdentityReadable(data)
    /\ Len(data) >= 1 + LenBytes + ReadUInt(data, 1, LenBytes) + LenBytes
                    + ReadUInt(data, 1 + LenBytes + ReadUInt(data, 1, LenBytes), LenBytes)

\* the index after the last byte handleAuthRequest reads: of idLen after the
\* first check, of the identity and commitLen after the second, of the
\* commitment after the third (commitLen is read for authorized identities only)
LastRead(data) ==
    LET idLen == ReadUInt(data, 1, LenBytes)
        offset2 == 1 + LenBytes + idLen
    IN  IF Len(data) < MinAuthRequestSize THEN 0
        ELSE IF ~IdentityReadable(data) THEN 1 + LenBytes
        ELSE IF Slice(data, 1 + LenBytes, offset2) \notin authorizedDrones THEN offset2
        ELSE IF ~CommitmentReadable(data) THEN offset2 + LenBytes
        ELSE offset2 + LenBytes + ReadUInt(data, offset2, LenBytes)

\* the identity of the buffer can be read and is not authorized
NamesUnauthorized(data) ==
    /\ IdentityReadable(data)
    /\ RequestedId(data) \notin authorizedDrones

\* a malformed request read within its bounds and answered with one
\* AUTH_FAILURE, no verifier, challenge or address stored, no random bytes drawn
RefusedInBounds(data, a, r) ==
    /\ ~CommitmentReadable(data)
    /\ LastRead(data) <= Len(data)
    /\ r.out = <<AuthFailurePacket(a, DronePort)>>
    /\ r.rand = rand
    /\ r.gs.droneVerifiers = gs.droneVerifiers
    /\ r.gs.pendingChallenges = gs.pendingChallenges
    /\ r.gs.droneAddresses = gs.droneAddresses
    /\ r.gs.numAuthRequests = gs.numAuthRequests + 1
    /\ r.gs.numAuthSuccess = gs.numAuthSuccess

---------------------------------------------------------------------------
(* C26 *)

\* the CHALLENGE message for a challenge
ChallengeMessage(challenge) ==
    <<TypeChallenge>> \o ToBytes(Len(challenge), LenBytes) \o challenge

\* CHALLENGE messages that end before their fields do: the type byte alone,
\* a length with nothing or too little after it
MalformedChallenges ==
    {<<TypeChallenge>>,
     <<TypeChallenge>> \o ToBytes(2, LenBytes),
     <<TypeChallenge>> \o ToBytes(2, LenBytes) \o <<7>>,
     <<TypeChallenge>> \o ToBytes(Pow256(LenBytes) - 1, LenBytes) \o <<7, 7>>}

\* the challenges of well-formed CHALLENGE messages: the ones issued, one
\* never issued, and the empty one
ChallengesTried == hist.issued \cup {UnknownChallenge, <<>>}

\* the proof a PROOF packet carries
ProofOf(pkt) == deserialize(Tail(pkt.data))

\* the CHALLENGE packets for drone d on the network
ChallengesFor(d) == {pkt \in net : ToDrone(pkt, d) /\ TypeOf(pkt) = TypeChallenge}

\* what handling a CHALLENGE does to drone d, and what its PROOFs carry
ChallengeRecorded(d) ==
    /\ \A ch \in ChallengesTried :
          handleIncomingMessage(app[d], ChallengeMessage(ch))
              = Acted([app[d] EXCEPT !.currentChallenge = ch, !.proofMsgs = @ + 1], <<>>)
    /\ \A data \in MalformedChallenges :
          handleIncomingMessage(app[d], data) = Acted(app[d], <<>>)
    /\ app[d].proofMsgs > 0 =>
          LET r == handleSelfMessage([app[d] EXCEPT !.proofMsgs = @ - 1], MSG_SEND_PROOF, now)
          IN  /\ Len(r.out) = 1
              /\ r.out[1].data[1] = TypeProof
              /\ ProofOf(r.out[1]).challenge = app[d].currentChallenge
              /\ r.app.proofMsgs = app[d].proofMsgs - 1
    /\ (app[d].proofMsgs > 0 \/ ProofsOf(d) # {}) => app[d].currentChallenge # <<>>
    /\ app[d].currentChallenge # <<>> =>
          \E x \in hist.issuedFor :
              x.challenge = app[d].currentChallenge /\ x.requester = app[d].address
    /\ \A pkt \in ProofsOf(d) :
          /\ DeserializeInBounds(Tail(pkt.data))
          /\ ProofOf(pkt).commitment = getCommitment(app[d].zkpModule)
          /\ \E x \in hist.issuedFor :
                x.challenge = ProofOf(pkt).challenge /\ x.requester = app[d].address
    /\ \A pkt \in SentByDrone(d) :
          TypeOf(pkt) = TypeAuthRequest =>
              RequestedCommitment(pkt.data) = getCommitment(app[d].zkpModule)

\* a step of drone d records a challenge only from a CHALLENGE packet taken
\* off the network, and schedules one proof for it; it sends a PROOF only
\* when a sendProof message arrives, one for one, with the challenge
\* recorded at that moment
OneProofPerChallenge(d) ==
    /\ app'[d].currentChallenge # app[d].currentChallenge =>
          \E pkt \in ChallengesFor(d) \ ChallengesFor(d)' :
              /\ pkt.data = ChallengeMessage(app'[d].currentChallenge)
              /\ app'[d].proofMsgs = app[d].proofMsgs + 1
    /\ app'[d].proofMsgs > app[d].proofMsgs =>
          /\ app'[d].proofMsgs = app[d].proofMsgs + 1
          /\ \E pkt \in ChallengesFor(d) \ ChallengesFor(d)' :
                pkt.data = ChallengeMessage(app'[d].currentChallenge)
          /\ ProofsOf(d)' = ProofsOf(d)
    /\ app'[d].proofMsgs < app[d].proofMsgs =>
          /\ app'[d].proofMsgs = app[d].proofMsgs - 1
          /\ app'[d].currentChallenge = app[d].currentChallenge
          /\ \E pkt \in ProofsOf(d)' :
                /\ ProofOf(pkt).challenge = app[d].currentChallenge
                /\ ProofsOf(d)' \subseteq ProofsOf(d) \cup {pkt}
    /\ app'[d].proofMsgs = app[d].proofMsgs => ProofsOf(d)' \subseteq ProofsOf(d)

\* C26: every PROOF of a drone carries a challenge the drone recorded from a
\* well-formed CHALLENGE it received (the one recorded when the sendProof
\* message arrives) and the commitment of the drone's AUTH_REQUESTs; a
\* well-formed CHALLENGE records its challenge and schedules one proof, each
\* scheduled proof sends one PROOF, and no PROOF is sent otherwise; a
\* malformed CHALLENGE changes nothing.
C26_ProofPerChallenge ==
    /\ [](\A d \in Drones : ChallengeRecorded(d))
    /\ [][\A d \in Drones : OneProofPerChallenge(d)]_vars

\* a drone's PROOF for its first challenge is on the network, the drone has
\* recorded a second challenge since and a proof for it is scheduled
C26_Witness ==
    \E d \in Drones : \E pkt \in ProofsOf(d) :
        /\ ProofOf(pkt).challenge # app[d].currentChallenge
        /\ app[d].proofMsgs = 1

---------------------------------------------------------------------------
(* C27 *)

\* the timeout timer and the retry timer of a drone
TimersOf(a) ==
    [timeoutMsg |-> a.timeoutMsg, timeoutId |-> a.timeoutId,
     timeoutEvents |-> a.timeoutEvents, selfMsg |-> a.selfMsg,
     selfMsgAfter |-> a.selfMsgAfter]

\* the drone after a sendProof message, were one to arrive now
ProofSentNow(a, nowv) ==
    handleSelfMessage([a EXCEPT !.proofMsgs = @ - 1], MSG_SEND_PROOF, nowv).app

\* a result for drone d is taken off the network in this step
ResultTaken(d) ==
    \E pkt \in net \ net' :
        ToDrone(pkt, d) /\ TypeOf(pkt) \in {TypeAuthSuccess, TypeAuthFailure}

\* taking a CHALLENGE and sending a PROOF leave both timers of drone d as
\* they are, whatever the state
TimersKept(d) ==
    /\ \A ch \in ChallengesTried :
          TimersOf(handleIncomingMessage(app[d], ChallengeMessage(ch)).app) = TimersOf(app[d])
    /\ app[d].proofMsgs > 0 => TimersOf(ProofSentNow(app[d], now)) = TimersOf(app[d])

\* the steps that change the timers of drone d
TimersChange(d) ==
    /\ app'[d].proofMsgs # app[d].proofMsgs => TimersOf(app'[d]) = TimersOf(app[d])
    /\ app'[d].timeoutEvents # app[d].timeoutEvents =>
          \/ TimeoutFires(d)
          \/ ResultTaken(d) /\ app'[d].timeoutEvents = {}
          \/ /\ app'[d].numAuthRequests = app[d].numAuthRequests + 1
             /\ app'[d].timeoutEvents = {app'[d].numAuthRequests}
    /\ (app[d].timeoutEvents # {} /\ app'[d].timeoutEvents = {} /\ ~TimeoutFires(d)) =>
          ResultTaken(d)

---------------------------------------------------------------------------
(* C28 *)

\* the data of the module the claim names
EngineData(z) ==
    <<z.privateSecret, z.sessionNonce, z.publicCommitment,
      z.proverInitialized, z.verifierInitialized>>

\* C28: whatever methods were called before, in whatever order,
\* createCommitment and generateProof throw exactly when initializeProver was
\* not called since the constructor or the last reset, and verifyProof
\* throws exactly when initializeVerifier was not; a call that throws leaves
\* the secret, the nonce, the commitment and the two flags as they were.
C28_NotInitializedFails ==
    LET z == app.z
    IN  /\ z.proverInitialized = app.called.prover
        /\ z.verifierInitialized = app.called.verifier
        /\ createCommitment(z).ok = app.called.prover
        /\ ~app.called.prover => EngineData(createCommitment(z).z) = EngineData(z)
        /\ \A ch \in EngineChallenges :
              /\ generateProof(z, ch, now).ok = app.called.prover
              /\ ~app.called.prover => EngineData(generateProof(z, ch, now).z) = EngineData(z)
        /\ \A p \in EngineProofs : \A v \in verifyProof(z, p, now) :
              v.ok = app.called.verifier
        /\ ~app.last.ok => ~app.last.changed

\* a module that was initialized and then reset: the call of createCommitment
\* after the reset has thrown and the module is as reset left it
C28_Witness ==
    /\ app.z.droneId = DroneName(2)
    /\ ~app.called.prover /\ ~app.called.verifier
    /\ app.z.privateSecret = <<>>
    /\ app.last.op = "createCommitment"
    /\ app.last.afterReset
    /\ ~app.last.ok

---------------------------------------------------------------------------
(* C29 *)

\* the identity handleProof finds for a proof, were it delivered now
FoundFor(p) == FindDroneId(gs.pendingChallenges, p.challenge)

\* C29: in every reachable state of the ground station every identity with a
\* pending challenge has a verifier, every identity with a verifier is
\* authorized and its verifier is initialized for it; so for every proof
\* that finds a pending challenge the verifier is there, and verifyProof
\* does not throw.
C29_SessionsWellFormed ==
    /\ DOMAIN gs.pendingChallenges \subseteq DOMAIN gs.droneVerifiers
    /\ DOMAIN gs.droneVerifiers \subseteq authorizedDrones
    /\ DOMAIN gs.droneAddresses = DOMAIN gs.droneVerifiers
    /\ \A k \in DOMAIN gs.droneVerifiers :
          /\ gs.droneVerifiers[k].verifierInitialized
          /\ gs.droneVerifiers[k].droneId = k
    /\ \A k \in DOMAIN gs.pendingChallenges :
          gs.pendingChallenges[k] = gs.droneVerifiers[k].lastChallenge
    /\ \A p \in TriedProofs :
          FoundFor(p) # <<>> =>
              /\ FoundFor(p) \in DOMAIN gs.droneVerifiers
              /\ \A v \in verifyProof(gs.droneVerifiers[FoundFor(p)], p, now) : v.ok

\* one identity has authenticated and keeps its verifier with no challenge
\* pending, and a request of an identity that is not authorized was refused
\* and left no verifier
C29_Witness ==
    /\ DOMAIN gs.droneVerifiers = {DroneName(1)}
    /\ gs.pendingChallenges = EmptyMap
    /\ gs.numAuthSuccess = 1
    /\ gs.numAuthFailures = 1
    /\ gs.numAuthRequests = 2

---------------------------------------------------------------------------
(* C30 *)

\* the number of challenges the ground station has issued
ChallengesIssued == Cardinality(hist.issued)

\* C30: in every reachable state of the ground station the success counter
\* is the number of issued challenges a proof was accepted against, which is
\* at most the number of challenges issued, which is at most the request
\* counter: numAuthSuccess <= challenges issued <= numAuthRequests. Every
\* challenge accepted was issued, and none is still pending.
C30_SuccessesWithinRequests ==
    /\ gs.numAuthSuccess <= ChallengesIssued
    /\ ChallengesIssued <= gs.numAuthRequests
    /\ ChallengesIssued = rand
    /\ hist.accepted \subseteq hist.issued
    /\ hist.accepted \cap Values(gs.pendingChallenges) = {}
    /\ gs.numAuthSuccess + Cardinality(DOMAIN gs.pendingChallenges) <= ChallengesIssued
    /\ gs.numAuthRequests > 0 => gs.numAuthSuccess * 100 <= gs.numAuthRequests * 100

\* every request was answered with a challenge and every challenge was
\* accepted once: the three numbers are equal, the success rate is 100%
C30_Witness ==
    /\ gs.numAuthRequests = MaxRequests
    /\ ChallengesIssued = gs.numAuthRequests
    /\ gs.numAuthSuccess = ChallengesIssued

---------------------------------------------------------------------------
(* C32 *)

\* C32: on every drone the outcomes counted are never more than the
\* requests sent: numAuthSuccess + numAuthFailures <= numAuthRequests, a
\* timeout and an AUTH_FAILURE each counting as a failure.
C32_OneOutcomePerAttempt ==
    \A d \in Drones :
        app[d].numAuthSuccess + app[d].numAuthFailures <= app[d].numAuthRequests

---------------------------------------------------------------------------
(* One drone with its lifecycle: started, stopped, crashed and started
   again in any order, its timers arriving in any order, and any message
   arriving from the network at any moment. The ground station is not part
   of it: what it could send, and more, arrives by Arrives *)

\* the drone the operations are applied to; the handlers of a drone touch no
\* other drone
Restarted == {d \in Drones : d = 1}

\* what arrives at the drone's socket: CHALLENGEs with two challenges, the
\* two results, the empty datagram, a CHALLENGE cut short and an unknown type
ArrivingMessages ==
    {ChallengeMessage(ch) : ch \in {<<0, 1>>, <<0, 2>>}}
    \cup {<<TypeAuthSuccess>>, <<TypeAuthFailure>>, <<>>, <<TypeChallenge>>, <<9>>}

\* a lifecycle operation stops a running drone
StopOperation(d) ==
    /\ app[d].up
    /\ DroneActs(d, handleStopOperation(app[d]),
                 [hist.drone[d] EXCEPT !.awaiting = "nothing"])

\* the node of a running drone crashes
CrashOperation(d) ==
    /\ app[d].up
    /\ DroneActs(d, handleCrashOperation(app[d]),
                 [hist.drone[d] EXCEPT !.awaiting = "nothing"])

\* a datagram arrives at a running drone
Arrives(d) ==
    /\ Running(d)
    /\ \E data \in ArrivingMessages :
          LET r == handleIncomingMessage(app[d], data)
          IN  /\ r.app.proofMsgs <= MaxInFlight
              /\ r.app.numAuthSuccess + r.app.numAuthFailures <= MaxOutcomes
              /\ DroneActs(d, r, [hist.drone[d] EXCEPT
                                     !.awaiting = AwaitingAfter(@, app[d], data, r)])

NextLifecycle ==
    \/ \E d \in Restarted : StartOperation(d)
    \/ \E d \in Restarted : StopOperation(d)
    \/ \E d \in Restarted : CrashOperation(d)
    \/ \E d \in Restarted : SendAuthRequestTimer(d)
    \/ \E d \in Restarted : SendProofTimer(d)
    \/ \E d \in Restarted : AuthTimeout(d)
    \/ \E d \in Restarted : Arrives(d)
    \/ Lose

SpecLifecycle == InitSystem /\ [][NextLifecycle]_vars

---------------------------------------------------------------------------
(* C31 *)

\* the drone after the authTimeout message id, were it to arrive now
TimeoutHandledNow(a, id) ==
    handleSelfMessage(TimeoutArrived(a, id), MSG_AUTH_TIMEOUT, 0).app

\* selfMsg and an authTimeout message are not both scheduled, and no
\* scheduleAt or delete of a scheduled message has happened
TimersExclusive(a) ==
    /\ ~(a.selfMsg = "scheduled" /\ a.timeoutEvents # {})
    /\ (a.timeoutMsg = "scheduled") = (a.timeoutEvents # {})
    /\ a.timeoutEvents \subseteq {a.timeoutId}
    /\ ~a.failed

\* C31: on a drone, under every order of timer arrivals, message arrivals,
\* stops, crashes and starts, selfMsg and the timeout are never both
\* scheduled; whenever an authTimeout message can arrive selfMsg is not
\* scheduled, so handleAuthTimeout schedules a message that is not
\* scheduled; and whenever the drone can be started selfMsg is not
\* scheduled, so handleStartOperation does too.
C31_TimersExclusive ==
    \A d \in Restarted :
        /\ TimersExclusive(app[d])
        /\ \A id \in app[d].timeoutEvents :
              /\ TimeoutArrived(app[d], id).selfMsg # "scheduled"
              /\ TimersExclusive(TimeoutHandledNow(app[d], id))
              /\ TimeoutHandledNow(app[d], id).selfMsg = "scheduled"
        /\ ~app[d].up =>
              /\ app[d].selfMsg # "scheduled"
              /\ app[d].timeoutEvents = {}
              /\ TimersExclusive(handleStartOperation(app[d]).app)
              /\ handleStartOperation(app[d]).app.selfMsg = "scheduled"

\* a drone stopped while its timeout was scheduled and started again: the
\* cancelled timeout message is still allocated, and selfMsg is scheduled
\* for the start
C31_Witness ==
    \E d \in Restarted :
        /\ app[d].up
        /\ app[d].numAuthRequests = 1
        /\ app[d].timeoutMsg = "idle"
        /\ app[d].timeoutId = 1
        /\ app[d].timeoutEvents = {}
        /\ app[d].selfMsg = "scheduled"
        /\ app[d].selfMsgAfter = "startTime"
        /\ hist.drone[d].fired = {}

===========================================================================
